---- MODULE Spec2Model ----
(***************************************************************************)
(* State-machine model of indexer-go: the structured task endpoints        *)
(* (internal/api/handlers_tasks_v2.go), the PostgreSQL task store          *)
(* (internal/store/repo.go, migrations 002/003) and the settlement-event   *)
(* watcher (internal/chain/watcher.go).                                    *)
(*                                                                         *)
(* Every store call of a handler is one atomic step (a single SQL          *)
(* statement); handlers interleave between store calls.  What a handler    *)
(* does in a step is an operator from the store and the request to the     *)
(* response and the store it leaves; the actions apply these operators.    *)
(* Requests are the decoded JSON bodies.  Hex strings are scaled down (2   *)
(* hex digits stand for a 20-byte address or a 32-byte digest); everything *)
(* else follows the source.                                                *)
(***************************************************************************)
EXTENDS Integers, Sequences, FiniteSets, Bags, TLC

VARIABLES
    tasks,      \* table tasks: task_id -> row (task_id is the primary key)
    accepts,    \* table accepts: set of rows
    clock,      \* wall clock read by now() / time.Now()
    inflight,   \* bag of the accept requests between two store calls:
                \* [pc, task_id, req]
    nreqs,      \* number of HTTP requests received so far
    nAccepted,  \* task_id -> number of accept requests answered 201
    nlogs,      \* number of logs handled so far
    request,    \* the request drawn for the runs that go through every
                \* shape of request: [kind, task_id, req]
    \* the loop of one watcher (Run, runOnce, pollLogs) and its chain
    watcher,    \* the chain it watches: an index of SupportedChains
    wpc,        \* where Run is: "run", "subscribed", "polling", "handling",
                \* "backoff", "stopped"
    cancelled,  \* ctx is cancelled
    connected,  \* the client of runOnce is open
    cycles,     \* number of calls of runOnce so far
    chainHead,  \* the head block of the chain
    emitted,    \* the logs of the contract on the chain, each with what
                \* became of it: log -> [n, last, cyc, missed, skipped]
                \* (times handled, last outcome, call of runOnce that
                \* handled it last, mined between a return of runOnce
                \* and its next call, below the cursor when polling
                \* started)
    logsCh,     \* the channel logs of the subscription
    latestBlock,\* pollLogs: the head read when polling started
    fromBlock,  \* pollLogs: the cursor
    currentBlock, \* pollLogs: the head read for the current window
    fetched,    \* pollLogs: the logs of the current window still to handle
    window,     \* the window of the last successful query of this
                \* pollLogs call
    logged      \* the last line logged by Run, runOnce or pollLogs

\* the state of the watcher loop and its chain
wvars == <<watcher, wpc, cancelled, connected, cycles, chainHead, emitted, logsCh,
           latestBlock, fromBlock, currentBlock, fetched, window, logged>>

\* what the watcher loop leaves alone: the state of the HTTP side and the
\* chain the watcher was made for
hvars == <<accepts, clock, inflight, nreqs, nAccepted, nlogs, request, watcher>>

vars == <<tasks, accepts, clock, inflight, nreqs, nAccepted, nlogs, request, wvars>>

(***************************************************************************)
(* Bounds of the exploration.                                              *)
(***************************************************************************)
MaxReqs  == 3      \* HTTP requests received
MaxLogs  == 2      \* logs handled by the watchers
MaxClock == 1      \* clock ticks
MaxHead   == 3     \* blocks mined on the watched chain
MaxCycles == 2     \* calls of runOnce

(***************************************************************************)
(* Strings.                                                                *)
(***************************************************************************)
NullText == "NULL"     \* SQL NULL in a TEXT column
NullTime == -1         \* SQL NULL in a TIMESTAMPTZ column

LowerChar(c) ==
    CASE c = "A" -> "a" [] c = "B" -> "b" [] c = "C" -> "c"
      [] c = "D" -> "d" [] c = "E" -> "e" [] c = "F" -> "f"
      [] c = "X" -> "x" [] OTHER -> c

UpperChar(c) ==
    CASE c = "a" -> "A" [] c = "b" -> "B" [] c = "c" -> "C"
      [] c = "d" -> "D" [] c = "e" -> "E" [] c = "f" -> "F"
      [] OTHER -> c

RECURSIVE LowerCase(_)
\* strings.ToLower, character by character
LowerCase(s) ==
    IF Len(s) = 0 THEN s
    ELSE LowerChar(SubSeq(s, 1, 1)) \o LowerCase(SubSeq(s, 2, Len(s)))

RECURSIVE UpperCase(_)
UpperCase(s) ==
    IF Len(s) = 0 THEN s
    ELSE UpperChar(SubSeq(s, 1, 1)) \o UpperCase(SubSeq(s, 2, Len(s)))

HexChars == {"0","1","2","3","4","5","6","7","8","9",
             "a","b","c","d","e","f","A","B","C","D","E","F"}

\* strings.TrimSpace on the amount strings used here
TrimSpace(s) ==
    IF Len(s) >= 2 /\ SubSeq(s, 1, 1) = " " /\ SubSeq(s, Len(s), Len(s)) = " "
    THEN SubSeq(s, 2, Len(s) - 1) ELSE s

(***************************************************************************)
(* Keys, addresses, digests and signatures.                                *)
(***************************************************************************)
Keys == {"K1", "K2", "K3"}

\* the 20 address bytes of a key, as lower-case hex digits ("?" is a key
\* nobody holds)
AddressBytes(k) ==
    CASE k = "K1" -> "a1" [] k = "K2" -> "b2" [] k = "K3" -> "c3"
      [] OTHER -> "00"

TaskIDs   == {"t", "ta"}
AcceptIDs == {"a", "aa"}

\* the messages that get hashed: task ids and task_id \o accept_id
Messages == {"", "t", "ta", "zz", "taa", "taaa", "zza", "zzaa"}

\* keccak256, as lower-case hex without prefix: injective on Messages
Keccak256(data) ==
    CASE data = ""     -> "c5"
      [] data = "t"    -> "1d"
      [] data = "ta"   -> "2e"
      [] data = "zz"   -> "3f"
      [] data = "taa"  -> "4a"
      [] data = "taaa" -> "5b"
      [] data = "zza"  -> "6c"
      [] data = "zzaa" -> "7d"
      [] OTHER         -> "00"

\* the hex strings that occur, with and without prefix, in both letter
\* cases, and a few that are not hex
HexDigits ==
    LET lower == {AddressBytes(k) : k \in Keys \cup {"?"}}
                 \cup {Keccak256(m) : m \in Messages}
                 \cup {"f2", "e7"}
    IN  lower \cup {UpperCase(h) : h \in lower}

Strings ==
    HexDigits \cup {"0x" \o h : h \in HexDigits} \cup {"0X" \o h : h \in HexDigits}
    \cup {"", "0x", "0X", "0xzz", "0xa1b2", "a1"}

\* LowerCase and UpperCase, tabulated over Strings
LowerCased == [s \in Strings |-> LowerCase(s)]
UpperCased == [s \in Strings |-> UpperCase(s)]

\* strings.ToLower
ToLower(s) == LowerCased[s]

ToUpper(s) == UpperCased[s]

\* strings.EqualFold gone wrong: any two strings are equal
EqualFoldAny(a, b) == TRUE

\* strings.EqualFold
EqualFold(a, b) == ToLower(a) = ToLower(b)

\* (?i)^0x[0-9a-fA-F]{n}$
IsHexOfLen(s, n) ==
    /\ Len(s) = n + 2
    /\ ToLower(SubSeq(s, 1, 2)) = "0x"
    /\ \A i \in 3..Len(s) : SubSeq(s, i, i) \in HexChars

\* common.Address.Hex(): 0x + the checksummed, mixed-case digits
AddressHex(bytes) == "0x" \o ToUpper(bytes)

keccak256Hex(data) == "0x" \o Keccak256(data)

AddrHexLen == Len(Keccak256(""))     \* 40 in the source, scaled
HashHexLen == Len(Keccak256(""))     \* 64 in the source, scaled

reHexAddr(s) == IsHexOfLen(s, AddrHexLen)
reHexHash(s) == IsHexOfLen(s, HashHexLen)

(* A signature string.  form: "empty" (""), "hex65" (0x + 130 hex digits), *)
(* "short" (valid hex, not 65 bytes), "nonhex".  A hex65 signature was     *)
(* made by key k over the personal-sign digest of message hash m, with     *)
(* recovery id v; upper tells whether its hex digits are upper case.       *)
NoSig == [form |-> "empty", k |-> "", m |-> "", v |-> 0, upper |-> FALSE]

PersonalSign(k, message) ==
    [form |-> "hex65", k |-> k, m |-> Keccak256(message), v |-> 27, upper |-> FALSE]

\* strings.ToLower on a signature string
ToLowerSig(sig) == [sig EXCEPT !.upper = FALSE]

reHexSig(sig) == sig.form = "hex65"

\* eip191PersonalSignHash: keccak256(prefix || msgHash), kept symbolic
eip191PersonalSignHash(msgHash) == <<"Ethereum Signed Message:32", msgHash>>

\* RecoverPersonalSign gone wrong: the recovery id is taken as it comes,
\* 27 and 28 not brought down to 0 and 1
RecoverPersonalSignRawV(msgHash, sig) ==
    IF sig.form # "hex65" THEN [err |-> "ErrInvalidSignature", addr |-> ""]
    ELSE IF sig.v \notin {0, 1}
         THEN [err |-> "ErrInvalidSignature", addr |-> ""]
         ELSE IF eip191PersonalSignHash(msgHash) = eip191PersonalSignHash(sig.m)
              THEN [err |-> "nil", addr |-> ToLower(AddressHex(AddressBytes(sig.k)))]
              ELSE [err |-> "nil", addr |-> ToLower(AddressHex(AddressBytes("?")))]

\* ethutil.RecoverPersonalSign
RecoverPersonalSign(msgHash, sig) ==
    IF sig.form \in {"nonhex"} THEN [err |-> "ErrInvalidSignature", addr |-> ""]
    ELSE IF sig.form # "hex65" THEN [err |-> "ErrInvalidSignature", addr |-> ""]
    ELSE LET v == IF sig.v >= 27 THEN sig.v - 27 ELSE sig.v
             prefixedHash == eip191PersonalSignHash(msgHash)
         IN  IF v \notin {0, 1}
             THEN [err |-> "ErrInvalidSignature", addr |-> ""]
             ELSE IF prefixedHash = eip191PersonalSignHash(sig.m)
                  THEN [err |-> "nil", addr |-> ToLower(AddressHex(AddressBytes(sig.k)))]
                  \* recovery over another digest yields an unrelated key
                  ELSE [err |-> "nil", addr |-> ToLower(AddressHex(AddressBytes("?")))]

\* VerifyPersonalSign gone wrong: it does not compare the recovered address
\* with the expected one
VerifyPersonalSignAnySigner(message, sig, expectedAddress) ==
    RecoverPersonalSign(Keccak256(message), sig).err

\* VerifyPersonalSign gone wrong: it compares the addresses before it looks
\* at the error of the recovery
VerifyPersonalSignComparesFirst(message, sig, expectedAddress) ==
    LET rec == RecoverPersonalSign(Keccak256(message), sig)
    IN  IF ~EqualFold(rec.addr, expectedAddress) THEN "ErrSignerMismatch"
        ELSE rec.err

\* ethutil.VerifyPersonalSign
VerifyPersonalSign(message, sig, expectedAddress) ==
    LET msgHash == Keccak256(message)
        rec     == RecoverPersonalSign(msgHash, sig)
    IN  IF rec.err # "nil" THEN rec.err
        ELSE IF ~EqualFold(rec.addr, expectedAddress) THEN "ErrSignerMismatch"
        ELSE "nil"

(***************************************************************************)
(* Configuration.                                                          *)
(***************************************************************************)
\* cfg.SupportedChains (SUPPORTED_CHAINS_JSON): the default chain, which
\* waits for 2 confirmations, and a second chain that waits for none
SupportedChains ==
    << [chain_id |-> 11155111, settlement_contract |-> "0xF2", min_confirmations |-> 2],
       [chain_id |-> 8453,     settlement_contract |-> "0xE7", min_confirmations |-> 0] >>

ChainA == SupportedChains[1].chain_id
ChainB == SupportedChains[2].chain_id

FeeBPS == 20

DeadlineCeiling == 2^30    \* 1<<62 in the source, scaled to the checker's integers

(***************************************************************************)
(* The store: PostgresTaskRepo over the tables of migrations 002 and 003.  *)
(* Each operator is one SQL statement; it returns the error and the table. *)
(* The row-bookkeeping columns created_at and updated_at, which every      *)
(* statement sets to now(), are left out of the rows; now is kept as a     *)
(* parameter of the statements.                                            *)
(***************************************************************************)
TaskStatusCreated         == "created"
TaskStatusAccepted        == "accepted"
TaskStatusAcceptedOnchain == "accepted_onchain"
TaskStatusReleased        == "released"
TaskStatusRefunded        == "refunded"
TaskStatusCancelled       == "cancelled"

\* CHECK (status IN (...)) of migration 003
TaskStatuses ==
    {TaskStatusCreated, TaskStatusAccepted, TaskStatusAcceptedOnchain,
     TaskStatusReleased, TaskStatusRefunded, TaskStatusCancelled}

\* the row INSERT INTO tasks writes: the columns the statement does not
\* name take their defaults (NULL)
TaskRow(t) ==
    [task_id            |-> t.task_id,
     task_hash          |-> t.task_hash,
     chain_id           |-> t.chain_id,
     escrow_address     |-> t.escrow_address,
     employer_address   |-> t.employer_address,
     employer_signature |-> t.employer_signature,
     worker_address     |-> NullText,
     amount_wei         |-> t.amount_wei,
     deadline_unix      |-> t.deadline_unix,
     title              |-> t.title,
     status             |-> t.status,
     indexer_fee_bps    |-> t.indexer_fee_bps,
     onchain_created_at |-> NullTime,
     released_at        |-> NullTime,
     refunded_at        |-> NullTime,
     onchain_tx_hash    |-> NullText]

\* InsertTask gone wrong: an upsert (ON CONFLICT (task_id) DO UPDATE) that
\* overwrites the stored row and reports no conflict
InsertTaskUpsert(tbl, t, now) ==
    [err |-> "nil",
     tasks |-> [id \in DOMAIN tbl \cup {t.task_id} |->
                   IF id = t.task_id THEN TaskRow(t) ELSE tbl[id]]]

\* INSERT INTO tasks: task_id is the primary key, task_hash is UNIQUE
InsertTask(tbl, t, now) ==
    IF \E id \in DOMAIN tbl : id = t.task_id \/ tbl[id].task_hash = t.task_hash
    THEN [err |-> "ErrConflict", tasks |-> tbl]
    ELSE [err |-> "nil", tasks |-> tbl @@ (t.task_id :> TaskRow(t))]

\* SELECT ... FROM tasks WHERE task_id = $1
GetTask(tbl, taskID) ==
    IF taskID \in DOMAIN tbl
    THEN [err |-> "nil", task |-> tbl[taskID]]
    ELSE [err |-> "ErrNotFound", task |-> NullText]

\* GetTaskByHash gone wrong: without a match it returns some row
GetTaskByHashAnyRow(tbl, taskHash) ==
    IF \E id \in DOMAIN tbl : tbl[id].task_hash = taskHash
    THEN [err |-> "nil",
          task |-> tbl[CHOOSE id \in DOMAIN tbl : tbl[id].task_hash = taskHash]]
    ELSE IF DOMAIN tbl # {}
    THEN [err |-> "nil", task |-> tbl[CHOOSE id \in DOMAIN tbl : TRUE]]
    ELSE [err |-> "ErrNotFound", task |-> NullText]

\* SELECT ... FROM tasks WHERE task_hash = $1
GetTaskByHash(tbl, taskHash) ==
    IF \E id \in DOMAIN tbl : tbl[id].task_hash = taskHash
    THEN [err |-> "nil",
          task |-> tbl[CHOOSE id \in DOMAIN tbl : tbl[id].task_hash = taskHash]]
    ELSE [err |-> "ErrNotFound", task |-> NullText]

\* InsertAccept gone wrong: the accepts table without the unique index
\* idx_accepts_task_worker of migration 003
InsertAcceptNoIndex(tbl, acc, a, now) ==
    IF \E x \in acc : x.accept_id = a.accept_id
    THEN [err |-> "ErrConflict", accepts |-> acc]
    ELSE IF a.task_id \notin DOMAIN tbl
    THEN [err |-> "insert accept", accepts |-> acc]
    ELSE [err |-> "nil",
          accepts |-> acc \cup
              {[accept_id        |-> a.accept_id,
                task_id          |-> a.task_id,
                worker_address   |-> a.worker_address,
                worker_signature |-> a.worker_signature]}]

\* INSERT INTO accepts: accept_id is the primary key, (task_id,
\* worker_address) is unique (idx_accepts_task_worker), task_id references
\* tasks
InsertAccept(tbl, acc, a, now) ==
    IF \E x \in acc : \/ x.accept_id = a.accept_id
                      \/ (x.task_id = a.task_id /\ x.worker_address = a.worker_address)
    THEN [err |-> "ErrConflict", accepts |-> acc]
    ELSE IF a.task_id \notin DOMAIN tbl
    THEN [err |-> "insert accept", accepts |-> acc]
    ELSE [err |-> "nil",
          accepts |-> acc \cup
              {[accept_id        |-> a.accept_id,
                task_id          |-> a.task_id,
                worker_address   |-> a.worker_address,
                worker_signature |-> a.worker_signature]}]

\* UpdateTaskWorker gone wrong: the statement sets the status alone
UpdateTaskWorkerStatusOnly(tbl, taskID, workerAddress, status, now) ==
    [id \in DOMAIN tbl |->
        IF id = taskID THEN [tbl[id] EXCEPT !.status = status] ELSE tbl[id]]

\* UPDATE tasks SET worker_address, status, updated_at WHERE task_id = $3
UpdateTaskWorker(tbl, taskID, workerAddress, status, now) ==
    [id \in DOMAIN tbl |->
        IF id = taskID
        THEN [tbl[id] EXCEPT !.worker_address = workerAddress,
                             !.status = status]
        ELSE tbl[id]]

\* UpdateOnchainCreated gone wrong: the statement also resets the status
UpdateOnchainCreatedResetsStatus(tbl, taskID, txHash, at, now) ==
    [id \in DOMAIN tbl |->
        IF id = taskID
        THEN [tbl[id] EXCEPT !.onchain_created_at = at,
                             !.onchain_tx_hash = txHash,
                             !.status = "created"]
        ELSE tbl[id]]

\* UPDATE tasks SET onchain_created_at, onchain_tx_hash, updated_at
\* WHERE task_id = $3
UpdateOnchainCreated(tbl, taskID, txHash, at, now) ==
    [id \in DOMAIN tbl |->
        IF id = taskID
        THEN [tbl[id] EXCEPT !.onchain_created_at = at,
                             !.onchain_tx_hash = txHash]
        ELSE tbl[id]]

\* UpdateOnchainWorkerSet gone wrong: the statement guarded by the status
\* (... AND status IN ('created', 'accepted'))
UpdateOnchainWorkerSetGuarded(tbl, taskHash, workerAddress, txHash, now) ==
    [id \in DOMAIN tbl |->
        IF /\ tbl[id].task_hash = taskHash
           /\ tbl[id].status \in {"created", "accepted"}
        THEN [tbl[id] EXCEPT !.worker_address = workerAddress,
                             !.status = "accepted_onchain",
                             !.onchain_tx_hash = txHash]
        ELSE tbl[id]]

\* UpdateOnchainWorkerSet gone wrong: the statement sets the status and
\* the transaction but not the worker
UpdateOnchainWorkerSetNoWorker(tbl, taskHash, workerAddress, txHash, now) ==
    [id \in DOMAIN tbl |->
        IF tbl[id].task_hash = taskHash
        THEN [tbl[id] EXCEPT !.status = "accepted_onchain",
                             !.onchain_tx_hash = txHash]
        ELSE tbl[id]]

\* UPDATE tasks SET worker_address, status, onchain_tx_hash, updated_at
\* WHERE task_hash = $4
UpdateOnchainWorkerSet(tbl, taskHash, workerAddress, txHash, now) ==
    [id \in DOMAIN tbl |->
        IF tbl[id].task_hash = taskHash
        THEN [tbl[id] EXCEPT !.worker_address = workerAddress,
                             !.status = TaskStatusAcceptedOnchain,
                             !.onchain_tx_hash = txHash]
        ELSE tbl[id]]

\* UpdateOnchainReleased gone wrong: the statement also clears the worker
UpdateOnchainReleasedClearsWorker(tbl, taskHash, txHash, at, now) ==
    [id \in DOMAIN tbl |->
        IF tbl[id].task_hash = taskHash
        THEN [tbl[id] EXCEPT !.status = "released",
                             !.released_at = at,
                             !.onchain_tx_hash = txHash,
                             !.worker_address = NullText]
        ELSE tbl[id]]

\* UpdateOnchainReleased gone wrong: an upsert, which inserts a released row
\* for a task hash that no row carries
UpdateOnchainReleasedUpsert(tbl, taskHash, txHash, at, now) ==
    IF \E id \in DOMAIN tbl : tbl[id].task_hash = taskHash
    THEN [id \in DOMAIN tbl |->
             IF tbl[id].task_hash = taskHash
             THEN [tbl[id] EXCEPT !.status = "released",
                                  !.released_at = at,
                                  !.onchain_tx_hash = txHash]
             ELSE tbl[id]]
    ELSE tbl @@ (taskHash :>
             [TaskRow([task_id |-> taskHash, task_hash |-> taskHash, chain_id |-> 0,
                       escrow_address |-> "", employer_address |-> "",
                       employer_signature |-> NoSig, amount_wei |-> "0",
                       deadline_unix |-> 0, title |-> "", status |-> "released",
                       indexer_fee_bps |-> 0])
                 EXCEPT !.released_at = at, !.onchain_tx_hash = txHash])

\* UpdateOnchainReleased gone wrong: the statement does not set released_at
UpdateOnchainReleasedNoTime(tbl, taskHash, txHash, at, now) ==
    [id \in DOMAIN tbl |->
        IF tbl[id].task_hash = taskHash
        THEN [tbl[id] EXCEPT !.status = "released",
                             !.onchain_tx_hash = txHash]
        ELSE tbl[id]]

\* UPDATE tasks SET status, released_at, onchain_tx_hash, updated_at
\* WHERE task_hash = $4
UpdateOnchainReleased(tbl, taskHash, txHash, at, now) ==
    [id \in DOMAIN tbl |->
        IF tbl[id].task_hash = taskHash
        THEN [tbl[id] EXCEPT !.status = TaskStatusReleased,
                             !.released_at = at,
                             !.onchain_tx_hash = txHash]
        ELSE tbl[id]]

\* UPDATE tasks SET status, refunded_at, onchain_tx_hash, updated_at
\* WHERE task_hash = $4
UpdateOnchainRefunded(tbl, taskHash, txHash, at, now) ==
    [id \in DOMAIN tbl |->
        IF tbl[id].task_hash = taskHash
        THEN [tbl[id] EXCEPT !.status = TaskStatusRefunded,
                             !.refunded_at = at,
                             !.onchain_tx_hash = txHash]
        ELSE tbl[id]]

(***************************************************************************)
(* HTTP responses.                                                         *)
(***************************************************************************)
\* nothing written yet: the handler goes on
NoResp == [code |-> 0, error |-> "", status |-> ""]

\* util.WriteError(w, status, code, message)
WriteError(code, error) == [code |-> code, error |-> error, status |-> ""]

\* util.WriteJSON(w, http.StatusCreated, {..., "status": status})
WriteCreated(status) == [code |-> 201, error |-> "", status |-> status]

\* what a handler step leaves: the response and the two tables
Outcome(rsp, tbl, acc) == [resp |-> rsp, tasks |-> tbl, accepts |-> acc]

(***************************************************************************)
(* POST /v1/tasks: handlers.PostTask.                                      *)
(***************************************************************************)
\* new(big.Int).SetString(s, 10) on the amount strings used here: whether
\* the string parses and the sign of the value
ParseAmount(s) ==
    CASE s = "1000" -> [ok |-> TRUE,  sign |-> 1]
      [] s = "0"    -> [ok |-> TRUE,  sign |-> 0]
      [] s = "-5"   -> [ok |-> TRUE,  sign |-> -1]
      [] OTHER      -> [ok |-> FALSE, sign |-> 0]

\* the configured chain with this id, 0 when there is none
ChainIndex(chainID) ==
    IF \E i \in 1..Len(SupportedChains) : SupportedChains[i].chain_id = chainID
    THEN CHOOSE i \in 1..Len(SupportedChains) :
            /\ SupportedChains[i].chain_id = chainID
            /\ \A j \in 1..(i - 1) : SupportedChains[j].chain_id # chainID
    ELSE 0

\* the checks of PostTask, in the order of the code; NoResp when all pass
ValidateTask(req) ==
    LET amtStr == TrimSpace(req.amount_wei)
        amt    == ParseAmount(amtStr)
        sigerr == VerifyPersonalSign(req.task_id, req.signature, req.employer_address)
        ci     == ChainIndex(req.chain_id)
    IN  IF req.task_id = "" THEN WriteError(400, "invalid_request")
        ELSE IF req.chain_id = 0 THEN WriteError(400, "invalid_request")
        ELSE IF ~reHexAddr(req.employer_address) THEN WriteError(400, "invalid_request")
        ELSE IF ~reHexHash(req.task_hash) THEN WriteError(400, "invalid_request")
        ELSE IF ~amt.ok \/ amt.sign <= 0 THEN WriteError(400, "invalid_request")
        ELSE IF req.deadline_unix <= 0 \/ req.deadline_unix > DeadlineCeiling
             THEN WriteError(400, "invalid_request")
        ELSE IF ~EqualFold(req.task_hash, keccak256Hex(req.task_id))
             THEN WriteError(400, "invalid_request")
        ELSE IF req.signature.form = "empty" THEN WriteError(401, "unauthorized")
        ELSE IF ~reHexSig(req.signature) THEN WriteError(400, "invalid_request")
        ELSE IF sigerr \in {"ErrSignerMismatch", "ErrInvalidSignature"}
             THEN WriteError(401, "unauthorized")
        ELSE IF sigerr # "nil" THEN WriteError(400, "invalid_request")
        ELSE IF ci = 0 THEN WriteError(400, "invalid_request")
        ELSE NoResp

\* the store.Task built by PostTask from a request that passed the checks
NewTask(req) ==
    [task_id            |-> req.task_id,
     task_hash          |-> ToLower(req.task_hash),
     chain_id           |-> req.chain_id,
     escrow_address     |-> IF req.escrow_address = ""
                            THEN SupportedChains[ChainIndex(req.chain_id)].settlement_contract
                            ELSE req.escrow_address,
     employer_address   |-> ToLower(req.employer_address),
     employer_signature |-> ToLowerSig(req.signature),
     amount_wei         |-> TrimSpace(req.amount_wei),
     deadline_unix      |-> req.deadline_unix,
     title              |-> req.title,
     status             |-> TaskStatusCreated,
     indexer_fee_bps    |-> FeeBPS]

\* handlers.PostTask on the tables tbl, acc: InsertTask is its only store
\* call; ok = FALSE is a store failure other than a key collision
PostTaskHandler(tbl, acc, req, ok, now) ==
    LET v   == ValidateTask(req)
        res == IF ok THEN InsertTask(tbl, NewTask(req), now)
               ELSE [err |-> "insert task", tasks |-> tbl]
    IN  IF v # NoResp THEN Outcome(v, tbl, acc)
        ELSE IF res.err = "ErrConflict"
             THEN Outcome(WriteError(409, "conflict"), res.tasks, acc)
        ELSE IF res.err # "nil"
             THEN Outcome(WriteError(500, "internal"), res.tasks, acc)
        ELSE Outcome(WriteCreated(TaskStatusCreated), res.tasks, acc)

\* a task submission is received and handled
PostTask(req, ok) ==
    /\ nreqs < MaxReqs
    /\ LET h == PostTaskHandler(tasks, accepts, req, ok, clock)
       IN  /\ tasks' = h.tasks
           /\ accepts' = h.accepts
    /\ nreqs' = nreqs + 1
    /\ UNCHANGED <<inflight, nAccepted, clock, nlogs, wvars, request>>

(***************************************************************************)
(* POST /v1/tasks/{taskID}/accept: handlers.PostTaskAccept.  The handler   *)
(* makes three store calls (GetTask, InsertAccept, UpdateTaskWorker); each *)
(* is a step, and other requests and the watchers run in between.          *)
(***************************************************************************)
\* the checks made before the store is touched; NoResp when all pass
ValidateAccept(taskID, req) ==
    LET sigerr == VerifyPersonalSign(taskID \o req.accept_id, req.signature,
                                     req.worker_address)
    IN  IF req.accept_id = "" THEN WriteError(400, "invalid_request")
        ELSE IF ~reHexAddr(req.worker_address) THEN WriteError(400, "invalid_request")
        ELSE IF req.signature.form = "empty" THEN WriteError(401, "unauthorized")
        ELSE IF ~reHexSig(req.signature) THEN WriteError(400, "invalid_request")
        ELSE IF sigerr \in {"ErrSignerMismatch", "ErrInvalidSignature"}
             THEN WriteError(401, "unauthorized")
        ELSE IF sigerr # "nil" THEN WriteError(400, "invalid_request")
        ELSE NoResp

\* the status check gone wrong: a task already accepted passes it
NotInCreatedStateLax(task) ==
    task.status \notin {TaskStatusCreated, TaskStatusAccepted}

\* task.Status != store.TaskStatusCreated
NotInCreatedState(task) == task.status # TaskStatusCreated

\* the store.Accept built by PostTaskAccept
NewAccept(taskID, req) ==
    [accept_id        |-> req.accept_id,
     task_id          |-> taskID,
     worker_address   |-> ToLower(req.worker_address),
     worker_signature |-> ToLowerSig(req.signature)]

\* first step: the request is checked, GetTask runs, the status is checked;
\* the response is NoResp when the handler goes on to InsertAccept
AcceptCheck(tbl, acc, taskID, req, ok) ==
    LET v   == ValidateAccept(taskID, req)
        got == IF ok THEN GetTask(tbl, taskID)
               ELSE [err |-> "get task", task |-> NullText]
    IN  IF v # NoResp THEN Outcome(v, tbl, acc)
        ELSE IF got.err = "ErrNotFound"
             THEN Outcome(WriteError(404, "not_found"), tbl, acc)
        ELSE IF got.err # "nil" THEN Outcome(WriteError(500, "internal"), tbl, acc)
        ELSE IF NotInCreatedState(got.task)
             THEN Outcome(WriteError(409, "conflict"), tbl, acc)
        ELSE Outcome(NoResp, tbl, acc)

\* second step: InsertAccept runs; the response is NoResp when the handler
\* goes on to UpdateTaskWorker
AcceptStore(tbl, acc, taskID, req, ok, now) ==
    LET res == IF ok THEN InsertAccept(tbl, acc, NewAccept(taskID, req), now)
               ELSE [err |-> "insert accept", accepts |-> acc]
    IN  IF res.err = "ErrConflict"
        THEN Outcome(WriteError(409, "conflict"), tbl, res.accepts)
        ELSE IF res.err # "nil"
             THEN Outcome(WriteError(500, "internal"), tbl, res.accepts)
        ELSE Outcome(NoResp, tbl, res.accepts)

\* third step: UpdateTaskWorker runs and the response is written
AcceptFinish(tbl, acc, taskID, req, ok, now) ==
    IF ~ok THEN Outcome(WriteError(500, "internal"), tbl, acc)
    ELSE Outcome(WriteCreated("accepted"),
                 UpdateTaskWorker(tbl, taskID, ToLower(req.worker_address),
                                  TaskStatusAccepted, now),
                 acc)

\* an accept request about to make the store call pc
InFlight(pc, taskID, req) ==
    SetToBag({[pc |-> pc, task_id |-> taskID, req |-> req]})

\* an accept request is received and takes its first step
AcceptBegin(taskID, req, ok) ==
    /\ nreqs < MaxReqs
    /\ LET h == AcceptCheck(tasks, accepts, taskID, req, ok)
       IN  /\ tasks' = h.tasks
           /\ accepts' = h.accepts
           /\ inflight' = IF h.resp = NoResp
                           THEN inflight (+) InFlight("insert", taskID, req)
                           ELSE inflight
    /\ nreqs' = nreqs + 1
    /\ UNCHANGED <<nAccepted, clock, nlogs, wvars, request>>

\* the accept request x takes its second step
AcceptInsert(x, ok) ==
    /\ BagIn(x, inflight)
    /\ x.pc = "insert"
    /\ LET h == AcceptStore(tasks, accepts, x.task_id, x.req, ok, clock)
       IN  /\ tasks' = h.tasks
           /\ accepts' = h.accepts
           /\ inflight' = IF h.resp = NoResp
                           THEN (inflight (-) InFlight("insert", x.task_id, x.req))
                                    (+) InFlight("update", x.task_id, x.req)
                           ELSE inflight (-) InFlight("insert", x.task_id, x.req)
    /\ UNCHANGED <<nreqs, nAccepted, clock, nlogs, wvars, request>>

\* the accept request x takes its third step
AcceptUpdate(x, ok) ==
    /\ BagIn(x, inflight)
    /\ x.pc = "update"
    /\ LET h == AcceptFinish(tasks, accepts, x.task_id, x.req, ok, clock)
       IN  /\ tasks' = h.tasks
           /\ accepts' = h.accepts
           /\ nAccepted' = IF h.resp.code = 201
                           THEN [nAccepted EXCEPT ![x.task_id] = @ + 1]
                           ELSE nAccepted
    /\ inflight' = inflight (-) InFlight("update", x.task_id, x.req)
    /\ UNCHANGED <<nreqs, clock, nlogs, wvars, request>>

(***************************************************************************)
(* The watcher: Watcher.handleLog and the four event handlers.  Each       *)
(* yields what it logs last (outcome) and the tasks table it leaves.       *)
(***************************************************************************)
\* w.parsedABI.Events[name].ID, the topic that identifies the event
EventID(name) == name

\* "0x" + hex.EncodeToString(topic.Bytes())
taskHashFromTopic(topic) == "0x" \o topic

onCreated(tbl, vLog, now, ok) ==
    IF Len(vLog.topics) < 2 THEN [outcome |-> "short", tasks |-> tbl]
    ELSE LET taskHash == taskHashFromTopic(vLog.topics[2])
             got      == GetTaskByHash(tbl, taskHash)
         IN  IF ~ok THEN [outcome |-> "store_error", tasks |-> tbl]
             ELSE IF got.err # "nil" THEN [outcome |-> "audit", tasks |-> tbl]
             ELSE [outcome |-> "applied",
                   tasks |-> UpdateOnchainCreated(tbl, got.task.task_id,
                                                  vLog.tx, now, now)]

onWorkerSet(tbl, vLog, now, ok) ==
    IF Len(vLog.topics) < 3 THEN [outcome |-> "short", tasks |-> tbl]
    ELSE LET taskHash   == taskHashFromTopic(vLog.topics[2])
             workerAddr == AddressHex(vLog.topics[3])
         IN  IF ~ok THEN [outcome |-> "store_error", tasks |-> tbl]
             ELSE [outcome |-> "applied",
                   tasks |-> UpdateOnchainWorkerSet(tbl, taskHash,
                                                    ToLower(workerAddr), vLog.tx, now)]

onReleased(tbl, vLog, now, ok) ==
    IF Len(vLog.topics) < 2 THEN [outcome |-> "short", tasks |-> tbl]
    ELSE LET taskHash == taskHashFromTopic(vLog.topics[2])
         IN  IF ~ok THEN [outcome |-> "store_error", tasks |-> tbl]
             ELSE [outcome |-> "applied",
                   tasks |-> UpdateOnchainReleased(tbl, taskHash, vLog.tx, now, now)]

onRefunded(tbl, vLog, now, ok) ==
    IF Len(vLog.topics) < 2 THEN [outcome |-> "short", tasks |-> tbl]
    ELSE LET taskHash == taskHashFromTopic(vLog.topics[2])
         IN  IF ~ok THEN [outcome |-> "store_error", tasks |-> tbl]
             ELSE [outcome |-> "applied",
                   tasks |-> UpdateOnchainRefunded(tbl, taskHash, vLog.tx, now, now)]

\* what client.BlockNumber yields when it returns an error
HeadError == -1

\* the switch of handleLog on the first topic of the log of delivery d
dispatch(tbl, d, now) ==
    LET vLog == d.log
    IN  IF Len(vLog.topics) = 0 THEN [outcome |-> "no_topics", tasks |-> tbl]
        ELSE IF vLog.topics[1] = EventID("Created")
             THEN onCreated(tbl, vLog, now, d.ok)
        ELSE IF vLog.topics[1] = EventID("WorkerSet")
             THEN onWorkerSet(tbl, vLog, now, d.ok)
        ELSE IF vLog.topics[1] = EventID("Released")
             THEN onReleased(tbl, vLog, now, d.ok)
        ELSE IF vLog.topics[1] = EventID("Refunded")
             THEN onRefunded(tbl, vLog, now, d.ok)
        ELSE [outcome |-> "unknown", tasks |-> tbl]

\* the confirmation check gone wrong: the log is dispatched whatever the
\* head is
checkConfirmationsNone(tbl, d, now) == dispatch(tbl, d, now)

\* handleLog from the confirmation check on
checkConfirmations(tbl, d, now) ==
    LET minConfirmations == SupportedChains[d.w].min_confirmations
    IN  IF minConfirmations > 0 /\ d.head = HeadError
        THEN [outcome |-> "head_error", tasks |-> tbl]
        ELSE IF minConfirmations > 0 /\ d.head < d.log.block + minConfirmations
             THEN [outcome |-> "waiting", tasks |-> tbl]
        ELSE dispatch(tbl, d, now)

\* handleLog gone wrong: a removed log is handled like any other
handleLogRemovedToo(tbl, d, now) == checkConfirmations(tbl, d, now)

\* handleLog of the watcher of chain SupportedChains[d.w] on the delivery
\* d = [w, log, head, ok]: head is what client.BlockNumber returns, ok
\* whether the store calls succeed
handleLog(tbl, d, now) ==
    IF d.log.removed THEN [outcome |-> "removed", tasks |-> tbl]
    ELSE checkConfirmations(tbl, d, now)

\* handleLog gone wrong: the watchers share a lock, which a watcher holds
\* while it waits to reconnect
HandleLogUnlessBackoff(d) ==
    /\ wpc # "backoff"
    /\ nlogs < MaxLogs
    /\ tasks' = handleLog(tasks, d, clock).tasks
    /\ nlogs' = nlogs + 1
    /\ UNCHANGED <<accepts, clock, inflight, nreqs, nAccepted, wvars, request>>

\* a watcher receives a log (from its subscription or a poll) and handles it
HandleLog(d) ==
    /\ nlogs < MaxLogs
    /\ tasks' = handleLog(tasks, d, clock).tasks
    /\ nlogs' = nlogs + 1
    /\ UNCHANGED <<accepts, clock, inflight, nreqs, nAccepted, wvars, request>>

\* time passes
Tick ==
    /\ clock < MaxClock
    /\ clock' = clock + 1
    /\ UNCHANGED <<tasks, accepts, inflight, nreqs, nAccepted, nlogs, wvars, request>>

(***************************************************************************)
(* The inputs.                                                             *)
(***************************************************************************)
\* a task-creation request for task id, signed by key k
TaskReq(id, chain, k, address, hash) ==
    [task_id          |-> id,
     title            |-> "title",
     chain_id         |-> chain,
     amount_wei       |-> "1000",
     deadline_unix    |-> 1700,
     employer_address |-> address,
     task_hash        |-> hash,
     escrow_address   |-> "",
     signature        |-> PersonalSign(k, id)]

\* [req, ok]: a request and whether the store call works
TaskInputs ==
    \* well-formed and signed by the employer K1, the address checksummed
    \* and the hash in upper case; the same when the store fails
    { [req |-> TaskReq("t", ChainA, "K1", AddressHex(AddressBytes("K1")), "0X1D"),
       ok |-> ok] : ok \in BOOLEAN }
    \* the same task in lower case; signed by another key; a wrong task_hash
    \cup { [req |-> r, ok |-> TRUE] : r \in
             { TaskReq("t", ChainA, "K1", "0xa1", keccak256Hex("t")),
               TaskReq("t", ChainA, "K2", AddressHex(AddressBytes("K1")),
                       keccak256Hex("t")),
               TaskReq("t", ChainA, "K1", AddressHex(AddressBytes("K1")),
                       keccak256Hex("ta")) } }

\* an accept request of worker key k for (taskID, acceptID)
AcceptReq(taskID, acceptID, k, address) ==
    [accept_id      |-> acceptID,
     worker_address |-> address,
     signature      |-> PersonalSign(k, taskID \o acceptID)]

Workers == {"K2", "K3"}

\* [task_id, req, ok]
AcceptInputs ==
    \* well-formed and signed by the worker: two workers with the same
    \* accept_id, and a worker with another accept_id and its address in
    \* lower case
    { [task_id |-> "t", req |-> AcceptReq("t", "a", k, AddressHex(AddressBytes(k))),
       ok |-> TRUE] : k \in Workers }
    \cup { [task_id |-> "t", req |-> AcceptReq("t", "aa", "K2", "0xb2"), ok |-> ok] :
             ok \in BOOLEAN }
    \* an unknown task; a request signed by another key
    \cup { [task_id |-> "zz", req |-> AcceptReq("zz", "a", "K2", "0xb2"), ok |-> TRUE],
           [task_id |-> "t",  req |-> AcceptReq("t", "a", "K3", "0xb2"), ok |-> TRUE] }

\* no request drawn: the actions take theirs from TaskInputs and
\* AcceptInputs
NoRequest == [kind |-> "none", task_id |-> "", req |-> NoSig]

\* the signature strings a request can carry for the message msg that key k
\* should sign: none, malformed ones, the signature of k with each encoding
\* of the recovery id and with one that is none, in upper case, the
\* signature of another key, and the signatures of k over other messages
Signatures(k, other, msg, others) ==
    { NoSig,
      [NoSig EXCEPT !.form = "short"],
      [NoSig EXCEPT !.form = "nonhex"],
      [PersonalSign(k, msg) EXCEPT !.upper = TRUE],
      PersonalSign(other, msg) }
    \cup { [PersonalSign(k, msg) EXCEPT !.v = v] : v \in {0, 1, 27, 28, 5, 31} }
    \cup { PersonalSign(k, m) : m \in others }

\* the task submissions: every combination of the shapes of each field
TaskRequests ==
    { [kind |-> "task", task_id |-> "",
       req |-> [task_id          |-> id,
                title            |-> "title",
                chain_id         |-> chain,
                amount_wei       |-> amount,
                deadline_unix    |-> deadline,
                employer_address |-> address,
                task_hash        |-> hash,
                escrow_address   |-> "",
                signature        |-> sig]] :
        id \in {"", "t"},
        chain \in {0, ChainA, ChainB, 5},
        amount \in {"1000", " 1000 ", "0", "-5", "abc"},
        deadline \in {0, 1700, DeadlineCeiling, DeadlineCeiling + 1},
        address \in {AddressHex(AddressBytes("K1")), "0xa1", "a1", "0xzz"},
        hash \in {keccak256Hex("t"), "0X1D", keccak256Hex("ta"), "0xzz"},
        sig \in Signatures("K1", "K2", "t", {"ta"}) }

\* the accept requests: every combination of the shapes of each field
AcceptRequests ==
    { [kind |-> "accept", task_id |-> id,
       req |-> [accept_id      |-> acceptID,
                worker_address |-> address,
                signature      |-> sig]] :
        id \in {"t", "ta", "zz"},
        acceptID \in {"", "a", "aa"},
        address \in {AddressHex(AddressBytes("K2")), "0xb2", "b2"},
        sig \in Signatures("K2", "K3", "taa", {"ta", "taaa"}) }

\* the tasks table after the valid submissions of the tasks t and ta
Registered ==
    LET first == PostTaskHandler(<< >>, {},
                     TaskReq("t", ChainA, "K1", "0xa1", keccak256Hex("t")), TRUE, 0)
    IN  PostTaskHandler(first.tasks, {},
            TaskReq("ta", ChainA, "K1", "0xa1", keccak256Hex("ta")), TRUE, 0).tasks

\* the topics of the logs: the four events of a registered task, two
\* events of an unknown one, and logs that are no event of the contract
LogTopics ==
    { <<EventID("Created"),   Keccak256("t"), AddressBytes("K1")>>,
      <<EventID("WorkerSet"), Keccak256("t"), AddressBytes("K3")>>,
      <<EventID("Released"),  Keccak256("t")>>,
      <<EventID("Refunded"),  Keccak256("t")>>,
      <<EventID("Created"),   Keccak256("zz"), AddressBytes("K1")>>,
      <<EventID("Released"),  Keccak256("zz")>>,
      <<EventID("WorkerSet"), Keccak256("t")>>,
      <<"Transfer", Keccak256("t")>>,
      << >> }

\* the transaction of a log: one per event kind
TxOf(tp) ==
    IF Len(tp) = 0 THEN "0x70"
    ELSE CASE tp[1] = EventID("Created")   -> "0x71"
           [] tp[1] = EventID("WorkerSet") -> "0x72"
           [] tp[1] = EventID("Released")  -> "0x73"
           [] tp[1] = EventID("Refunded")  -> "0x74"
           [] OTHER                        -> "0x75"

\* the block of the logs
LogBlock == 7

LogInputs ==
    { [removed |-> FALSE, block |-> LogBlock, topics |-> tp, tx |-> TxOf(tp)] :
        tp \in LogTopics }

\* a log reorganised out of the chain
RemovedLog(vLog) == [vLog EXCEPT !.removed = TRUE]

\* the accept requests that can be about to make the store call pc
Pending(pc) ==
    {[pc |-> pc, task_id |-> in.task_id, req |-> in.req] : in \in AcceptInputs}

Watchers == 1..Len(SupportedChains)

\* a log reaching handleLog of watcher w
Delivery(w, vLog, head, ok) == [w |-> w, log |-> vLog, head |-> head, ok |-> ok]

\* the logs of the four events of the registered task
TaskLogs ==
    { l \in LogInputs : /\ Len(l.topics) >= 2
                        /\ l.topics[2] = Keccak256("t")
                        /\ l.topics[1] \in {EventID("Created"), EventID("WorkerSet"),
                                            EventID("Released"), EventID("Refunded")}
                        /\ l.topics[1] = EventID("WorkerSet") => Len(l.topics) >= 3 }

\* the logs the contract can emit on the watched chain, and the logs
\* delivered in other circumstances than confirmed: WorkerSet and Released
\* of the registered task
ChainEvents ==
    { l \in TaskLogs : l.topics[1] \in {EventID("WorkerSet"), EventID("Released")} }

Deliveries ==
    \* confirmed logs on the chain that waits for 2 confirmations
    { Delivery(1, vLog, LogBlock + 2, TRUE) : vLog \in LogInputs }
    \* a store failure, a log not yet confirmed, a failed head query, a
    \* removed log at several depths, and the chain that needs no
    \* confirmation
    \cup UNION { { Delivery(1, vLog, LogBlock + 2, FALSE),
                   Delivery(1, vLog, LogBlock + 1, TRUE),
                   Delivery(1, vLog, HeadError, TRUE),
                   Delivery(1, RemovedLog(vLog), LogBlock + 2, TRUE),
                   Delivery(1, RemovedLog(vLog), LogBlock, TRUE),
                   Delivery(2, RemovedLog(vLog), HeadError, TRUE),
                   Delivery(2, vLog, HeadError, TRUE) } : vLog \in ChainEvents }

(***************************************************************************)
(* The loop of a watcher: Watcher.Run, runOnce and pollLogs, with the      *)
(* chain it watches.  Run blocks in runOnce (on the channels of the        *)
(* subscription, or on the ticker of pollLogs) and in its backoff; each    *)
(* action runs the loop from one blocking point to the next.               *)
(***************************************************************************)

\* the log l, mined in block b
Mined(l, b) == [l EXCEPT !.block = b]

\* no query has succeeded yet in this call of pollLogs
NoWindow == [from |-> -1, to |-> -1]

\* the logs FilterLogs returns for FromBlock = from, ToBlock = to
FilterLogs(chain, from, to) ==
    { l \in DOMAIN chain : from <= l.block /\ l.block <= to }

\* a set of logs in the order of their blocks
RECURSIVE SortByBlock(_)
SortByBlock(ls) ==
    IF ls = {} THEN << >>
    ELSE LET first == CHOOSE l \in ls : \A m \in ls : l.block <= m.block
         IN  <<first>> \o SortByBlock(ls \ {first})

\* the cursor gone wrong: polling starts from the first block
initialFromBlockGenesis(latest) == 0

\* fromBlock := new(big.Int).SetUint64(latestBlock)
initialFromBlock(latest) == latest

\* the cursor gone wrong: it stays on the head of the window
nextFromBlockSame(current) == current

\* fromBlock = new(big.Int).SetUint64(currentBlock + 1)
nextFromBlock(current) == current + 1

\* w.handleLog(ctx, client, vLog) at this point of the loop: the head
\* query of handleLog succeeds or not, and so does the store
watcherHandle(l, headOk, storeOk) ==
    handleLog(tasks,
              Delivery(watcher, l, IF headOk THEN chainHead ELSE HeadError, storeOk),
              clock)

\* what became of the log l: handled once more, with this outcome, in this
\* call of runOnce
Handled(l, outcome) ==
    [emitted EXCEPT ![l] = [@ EXCEPT !.n = @ + 1, !.last = outcome, !.cyc = cycles]]

\* runOnce gone wrong: it returns without the deferred client.Close()
ReturnLeavesClient(err) ==
    /\ wpc' = "backoff"
    /\ connected' = connected
    /\ logsCh' = << >>
    /\ fetched' = << >>
    /\ latestBlock' = 0
    /\ fromBlock' = 0
    /\ currentBlock' = 0
    /\ window' = NoWindow
    /\ logged' = IF err THEN "reconnecting" ELSE logged

\* runOnce returns to Run (the deferred client.Close() runs, the locals of
\* runOnce and pollLogs are gone); Run logs the error, if any, and waits
Return(err) ==
    /\ wpc' = "backoff"
    /\ connected' = FALSE
    /\ logsCh' = << >>
    /\ fetched' = << >>
    /\ latestBlock' = 0
    /\ fromBlock' = 0
    /\ currentBlock' = 0
    /\ window' = NoWindow
    /\ logged' = IF err THEN "reconnecting" ELSE logged

\* Run, top of the loop, ctx cancelled: Run returns
RunCancelled ==
    /\ wpc = "run"
    /\ cancelled
    /\ wpc' = "stopped"
    /\ logged' = "stopping"
    /\ UNCHANGED <<tasks, hvars, cancelled, connected, cycles, chainHead, emitted,
                   logsCh, latestBlock, fromBlock, currentBlock, fetched, window>>

\* Run calls runOnce: dial, subscribe, and on a refused subscription enter
\* pollLogs, which reads the head for its cursor
RunOnce(dialOk, subOk, headOk) ==
    /\ wpc = "run"
    /\ ~cancelled
    /\ cycles < MaxCycles
    /\ cycles' = cycles + 1
    /\ IF ~dialOk
       THEN Return(TRUE) /\ UNCHANGED emitted
       ELSE IF subOk
       THEN /\ wpc' = "subscribed"
            /\ connected' = TRUE
            /\ logsCh' = << >>
            /\ logged' = "subscribed"
            /\ UNCHANGED <<emitted, latestBlock, fromBlock, currentBlock,
                           fetched, window>>
       ELSE IF ~headOk
       THEN Return(TRUE) /\ UNCHANGED emitted
       ELSE /\ wpc' = "polling"
            /\ connected' = TRUE
            /\ latestBlock' = chainHead
            /\ fromBlock' = initialFromBlock(chainHead)
            /\ window' = NoWindow
            /\ logged' = "poll_mode"
            /\ emitted' = [l \in DOMAIN emitted |->
                             IF l.block < chainHead /\ emitted[l].n = 0
                             THEN [emitted[l] EXCEPT !.skipped = TRUE]
                             ELSE emitted[l]]
            /\ UNCHANGED <<logsCh, currentBlock, fetched>>
    /\ UNCHANGED <<tasks, hvars, cancelled, chainHead>>

\* runOnce gone wrong: a log whose store call failed is put back on the
\* channel, once
SubRecvRetries(headOk, storeOk) ==
    /\ wpc = "subscribed"
    /\ logsCh # << >>
    /\ LET l == Head(logsCh)
           r == watcherHandle(l, headOk, storeOk)
       IN  /\ tasks' = r.tasks
           /\ emitted' = Handled(l, r.outcome)
           /\ logsCh' = IF r.outcome = "store_error" /\ emitted[l].n = 0
                        THEN Append(Tail(logsCh), l) ELSE Tail(logsCh)
    /\ UNCHANGED <<hvars, wpc, cancelled, connected, cycles, chainHead, latestBlock,
                   fromBlock, currentBlock, fetched, window, logged>>

\* runOnce, subscribed: case vLog := <-logs
SubRecv(headOk, storeOk) ==
    /\ wpc = "subscribed"
    /\ logsCh # << >>
    /\ LET l == Head(logsCh)
           r == watcherHandle(l, headOk, storeOk)
       IN  /\ tasks' = r.tasks
           /\ emitted' = Handled(l, r.outcome)
    /\ logsCh' = Tail(logsCh)
    /\ UNCHANGED <<hvars, wpc, cancelled, connected, cycles, chainHead, latestBlock,
                   fromBlock, currentBlock, fetched, window, logged>>

\* runOnce, subscribed: case err := <-sub.Err()
SubErr ==
    /\ wpc = "subscribed"
    /\ Return(TRUE)
    /\ UNCHANGED <<tasks, hvars, cancelled, cycles, chainHead, emitted>>

\* runOnce, subscribed: case <-ctx.Done()
SubCancelled ==
    /\ wpc = "subscribed"
    /\ cancelled
    /\ Return(FALSE)
    /\ UNCHANGED <<tasks, hvars, cancelled, cycles, chainHead, emitted>>

\* pollLogs: case <-ctx.Done()
PollCancelled ==
    /\ wpc = "polling"
    /\ cancelled
    /\ Return(FALSE)
    /\ UNCHANGED <<tasks, hvars, cancelled, cycles, chainHead, emitted>>

\* pollLogs gone wrong: a failed query moves the cursor past the head as a
\* successful one does
PollTickSkipsOnError(headOk, filterOk) ==
    /\ wpc = "polling"
    /\ IF ~headOk
       THEN Return(TRUE)
       ELSE IF chainHead <= fromBlock
       THEN UNCHANGED <<wpc, connected, logsCh, fetched, latestBlock, fromBlock,
                        currentBlock, window, logged>>
       ELSE IF ~filterOk
       THEN /\ logged' = "filter_error"
            /\ fromBlock' = chainHead + 1
            /\ UNCHANGED <<wpc, connected, logsCh, fetched, latestBlock,
                           currentBlock, window>>
       ELSE LET list == SortByBlock(FilterLogs(emitted, fromBlock, chainHead))
            IN  /\ window' = [from |-> fromBlock, to |-> chainHead]
                /\ IF list = << >>
                   THEN /\ fromBlock' = chainHead + 1
                        /\ UNCHANGED <<wpc, fetched, currentBlock>>
                   ELSE /\ wpc' = "handling"
                        /\ fetched' = list
                        /\ currentBlock' = chainHead
                        /\ UNCHANGED fromBlock
                /\ UNCHANGED <<connected, logsCh, latestBlock, logged>>
    /\ UNCHANGED <<tasks, hvars, cancelled, cycles, chainHead, emitted>>

\* pollLogs: the ticker fires; the head is read, the window is queried, and
\* with no log in it the cursor moves on
PollTick(headOk, filterOk) ==
    /\ wpc = "polling"
    /\ IF ~headOk
       THEN Return(TRUE)
       ELSE IF chainHead <= fromBlock
       THEN UNCHANGED <<wpc, connected, logsCh, fetched, latestBlock, fromBlock,
                        currentBlock, window, logged>>
       ELSE IF ~filterOk
       THEN /\ logged' = "filter_error"
            /\ UNCHANGED <<wpc, connected, logsCh, fetched, latestBlock,
                           fromBlock, currentBlock, window>>
       ELSE LET list == SortByBlock(FilterLogs(emitted, fromBlock, chainHead))
            IN  /\ window' = [from |-> fromBlock, to |-> chainHead]
                /\ IF list = << >>
                   THEN /\ fromBlock' = nextFromBlock(chainHead)
                        /\ UNCHANGED <<wpc, fetched, currentBlock>>
                   ELSE /\ wpc' = "handling"
                        /\ fetched' = list
                        /\ currentBlock' = chainHead
                        /\ UNCHANGED fromBlock
                /\ UNCHANGED <<connected, logsCh, latestBlock, logged>>
    /\ UNCHANGED <<tasks, hvars, cancelled, cycles, chainHead, emitted>>

\* pollLogs: for _, vLog := range fetched, one log; after the last one the
\* cursor moves on
PollHandle(headOk, storeOk) ==
    /\ wpc = "handling"
    /\ LET l == Head(fetched)
           r == watcherHandle(l, headOk, storeOk)
       IN  /\ tasks' = r.tasks
           /\ emitted' = Handled(l, r.outcome)
    /\ fetched' = Tail(fetched)
    /\ IF Tail(fetched) = << >>
       THEN /\ wpc' = "polling"
            /\ fromBlock' = nextFromBlock(currentBlock)
            /\ currentBlock' = 0
       ELSE UNCHANGED <<wpc, fromBlock, currentBlock>>
    /\ UNCHANGED <<hvars, cancelled, connected, cycles, chainHead, logsCh,
                   latestBlock, window, logged>>

\* Run gone wrong: it returns after runOnce instead of starting over
BackoffGivesUp ==
    /\ wpc = "backoff"
    /\ wpc' = "stopped"
    /\ UNCHANGED <<tasks, hvars, cancelled, connected, cycles, chainHead, emitted,
                   logsCh, latestBlock, fromBlock, currentBlock, fetched, window,
                   logged>>

\* Run, after runOnce: case <-time.After(10 * time.Second)
BackoffElapsed ==
    /\ wpc = "backoff"
    /\ wpc' = "run"
    /\ UNCHANGED <<tasks, hvars, cancelled, connected, cycles, chainHead, emitted,
                   logsCh, latestBlock, fromBlock, currentBlock, fetched, window,
                   logged>>

\* Run, after runOnce: case <-ctx.Done()
BackoffCancelled ==
    /\ wpc = "backoff"
    /\ cancelled
    /\ wpc' = "stopped"
    /\ UNCHANGED <<tasks, hvars, cancelled, connected, cycles, chainHead, emitted,
                   logsCh, latestBlock, fromBlock, currentBlock, fetched, window,
                   logged>>

\* main cancels ctx
Cancel ==
    /\ ~cancelled
    /\ cancelled' = TRUE
    /\ UNCHANGED <<tasks, hvars, wpc, connected, cycles, chainHead, emitted, logsCh,
                   latestBlock, fromBlock, currentBlock, fetched, window, logged>>

\* the chain: a block without a log of the contract
NewBlock ==
    /\ chainHead < MaxHead
    /\ chainHead' = chainHead + 1
    /\ UNCHANGED <<tasks, hvars, wpc, cancelled, connected, cycles, emitted,
                   logsCh, latestBlock, fromBlock, currentBlock, fetched, window,
                   logged>>

\* the chain: a block with the log l of the contract; an open subscription
\* sends it on the channel
EmitLog(l) ==
    /\ chainHead < MaxHead
    /\ \A m \in DOMAIN emitted : m.topics # l.topics
    /\ chainHead' = chainHead + 1
    /\ LET vLog == Mined(l, chainHead + 1)
       IN  /\ emitted' = emitted @@
                 (vLog :> [n |-> 0, last |-> "none", cyc |-> 0,
                           missed |-> wpc \in {"backoff", "run"} /\ cycles > 0,
                           skipped |-> FALSE])
           /\ logsCh' = IF wpc = "subscribed" THEN Append(logsCh, vLog) ELSE logsCh
    /\ UNCHANGED <<tasks, hvars, wpc, cancelled, connected, cycles, latestBlock,
                   fromBlock, currentBlock, fetched, window, logged>>

\* the employer registers the task the logs are about
Register(req) ==
    /\ nreqs = 0
    /\ PostTask(req, TRUE)

(***************************************************************************)
(* The specifications.                                                     *)
(***************************************************************************)
\* the state after main has opened the store, holding the tasks tbl, and
\* made the watcher of the chain SupportedChains[chain]; rq is the request
\* that will come in
Boot(chain, tbl, rq) ==
    /\ watcher = chain
    /\ request = rq
    /\ tasks = tbl
    /\ accepts = {}
    /\ clock = 0
    /\ inflight = EmptyBag
    /\ nreqs = 0
    /\ nAccepted = [id \in TaskIDs |-> 0]
    /\ nlogs = 0
    /\ wpc = "run"
    /\ cancelled = FALSE
    /\ connected = FALSE
    /\ cycles = 0
    /\ chainHead = 0
    /\ emitted = << >>
    /\ logsCh = << >>
    /\ latestBlock = 0
    /\ fromBlock = 0
    /\ currentBlock = 0
    /\ fetched = << >>
    /\ window = NoWindow
    /\ logged = "none"

\* the store is empty and the requests are those of the actions
Start(chain) == Boot(chain, << >>, NoRequest)

\* the watcher is that of the chain that waits for 2 confirmations
Init == Start(1)

\* the watcher is that of the chain that waits for no confirmation
InitNoConfirmations == Start(2)

Next ==
    \/ \E in \in TaskInputs : PostTask(in.req, in.ok)
    \/ \E in \in AcceptInputs : AcceptBegin(in.task_id, in.req, in.ok)
    \/ \E x \in Pending("insert"), ok \in BOOLEAN : AcceptInsert(x, ok)
    \/ \E x \in Pending("update"), ok \in BOOLEAN : AcceptUpdate(x, ok)
    \/ \E d \in Deliveries : HandleLog(d)
    \/ Tick

Spec == Init /\ [][Next]_vars

\* the watcher loop, its chain, and the registration of the task
WatcherNext ==
    \/ \E in \in TaskInputs : Register(in.req)
    \/ RunCancelled
    \/ \E dialOk, subOk, headOk \in BOOLEAN : RunOnce(dialOk, subOk, headOk)
    \/ \E headOk, storeOk \in BOOLEAN : SubRecv(headOk, storeOk)
    \/ SubErr
    \/ SubCancelled
    \/ PollCancelled
    \/ \E headOk, filterOk \in BOOLEAN : PollTick(headOk, filterOk)
    \/ \E headOk, storeOk \in BOOLEAN : PollHandle(headOk, storeOk)
    \/ BackoffElapsed
    \/ BackoffCancelled
    \/ Cancel
    \/ NewBlock
    \/ \E l \in ChainEvents : EmitLog(l)

\* one request of any shape comes in and is handled to its end: a task
\* submission on an empty store, an accept on a store that holds two tasks
InitRequest ==
    \/ \E rq \in TaskRequests : Boot(1, << >>, rq)
    \/ \E rq \in AcceptRequests : Boot(1, Registered, rq)

\* the drawn accept request, about to make the store call pc
Drawn(pc) == [pc |-> pc, task_id |-> request.task_id, req |-> request.req]

SubmitTask ==
    /\ request.kind = "task"
    /\ nreqs = 0
    /\ PostTask(request.req, TRUE)

SubmitAccept ==
    /\ request.kind = "accept"
    /\ nreqs = 0
    /\ AcceptBegin(request.task_id, request.req, TRUE)

StoreAccept == \E ok \in BOOLEAN : AcceptInsert(Drawn("insert"), ok)

FinishAccept == \E ok \in BOOLEAN : AcceptUpdate(Drawn("update"), ok)

RequestNext ==
    \/ SubmitTask
    \/ SubmitAccept
    \/ StoreAccept
    \/ FinishAccept

RequestSpec == InitRequest /\ [][RequestNext]_vars

WatcherSpec == Init /\ [][WatcherNext]_vars

WatcherSpecNoConfirmations == InitNoConfirmations /\ [][WatcherNext]_vars

(***************************************************************************)
(* The steps the claims speak about.                                       *)
(***************************************************************************)
\* the delivery is handled to the end: the log is confirmed and not
\* removed, and the store call works
Processed(d) ==
    /\ ~d.log.removed
    /\ d.ok
    /\ \/ SupportedChains[d.w].min_confirmations = 0
       \/ /\ d.head # HeadError
          /\ d.head >= d.log.block + SupportedChains[d.w].min_confirmations

\* the delivery is a processed event of this kind that carries a task hash
ProcessedEvent(d, name, ntopics) ==
    /\ Processed(d)
    /\ Len(d.log.topics) >= ntopics
    /\ d.log.topics[1] = EventID(name)

\* the tasks an event speaks about
TasksOfEvent(tbl, d) ==
    {id \in DOMAIN tbl : tbl[id].task_hash = taskHashFromTopic(d.log.topics[2])}

\* the accept request is validly signed
ValidAccept(taskID, req) == ValidateAccept(taskID, req) = NoResp

\* the validly signed accept requests whose read of the task succeeds
ValidAccepts == {in \in AcceptInputs : ValidAccept(in.task_id, in.req) /\ in.ok}

\* the valid task submissions whose store call does not fail
ValidSubmissions == {in \in TaskInputs : ValidateTask(in.req) = NoResp /\ in.ok}

\* the step receives a request; the step handles a log; the step is a
\* later step of a request in flight
Receives == nreqs' = nreqs + 1
Handles  == nlogs' = nlogs + 1
Proceeds == inflight' # inflight /\ nreqs' = nreqs

\* the accept rows of a worker for a task
AcceptsOf(acc, taskID, workerAddress) ==
    {a \in acc : a.task_id = taskID /\ a.worker_address = ToLower(workerAddress)}

(***************************************************************************)
(* C1.  Once a task's status is released or refunded, no log handled later *)
(* changes its status.                                                     *)
(***************************************************************************)
C1_StatusMovesForward ==
    [][ \A d \in Deliveries : (Handles /\ HandleLog(d)) =>
          \A id \in DOMAIN tasks :
              tasks[id].status \in {TaskStatusReleased, TaskStatusRefunded}
                  => tasks'[id].status = tasks[id].status ]_vars

(***************************************************************************)
(* C2.  Processing the Released event of a task a second time (the task is *)
(* released and carries the event's transaction) leaves the status         *)
(* released and released_at as the first processing set it.                *)
(***************************************************************************)
C2_ReleasedIdempotent ==
    [][ \A d \in Deliveries :
          (Handles /\ ProcessedEvent(d, "Released", 2) /\ HandleLog(d)) =>
          \A id \in TasksOfEvent(tasks, d) :
              ( /\ tasks[id].status = TaskStatusReleased
                /\ tasks[id].onchain_tx_hash = d.log.tx )
              => /\ tasks'[id].status = TaskStatusReleased
                 /\ tasks'[id].released_at = tasks[id].released_at ]_vars

(***************************************************************************)
(* C3.  An accept row is inserted only while the task it references has    *)
(* status created.                                                         *)
(***************************************************************************)
C3_InsertOnlyWhileCreated ==
    [][ \A a \in accepts' \ accepts :
            tasks[a.task_id].status = TaskStatusCreated ]_vars

(***************************************************************************)
(* C4.  For every task at most one accept request has been answered with   *)
(* success and at most one accept row exists.                              *)
(***************************************************************************)
C4_AtMostOneAccept ==
    \A id \in TaskIDs :
        /\ nAccepted[id] <= 1
        /\ Cardinality({a \in accepts : a.task_id = id}) <= 1

(***************************************************************************)
(* C5.  A validly signed accept request that finds its task with a status  *)
(* other than created (the read of the task succeeding) is answered 409    *)
(* conflict and ends there: neither the accepts nor the tasks change.      *)
(***************************************************************************)
C5_NotCreatedConflict ==
    [][ \A in \in ValidAccepts :
          ( /\ Receives
            /\ in.task_id \in DOMAIN tasks
            /\ tasks[in.task_id].status # TaskStatusCreated
            /\ AcceptBegin(in.task_id, in.req, in.ok) )
          => /\ AcceptCheck(tasks, accepts, in.task_id, in.req, in.ok).resp
                    = WriteError(409, "conflict")
             /\ accepts' = accepts
             /\ tasks' = tasks
             /\ inflight' = inflight ]_vars

\* a validly signed accept request can arrive for a released task
C5_Witness ==
    /\ nreqs < MaxReqs
    /\ \E in \in ValidAccepts :
          /\ in.task_id \in DOMAIN tasks
          /\ tasks[in.task_id].status = TaskStatusReleased
          /\ AcceptCheck(tasks, accepts, in.task_id, in.req, in.ok).resp
                 = WriteError(409, "conflict")

(***************************************************************************)
(* C6.  Once an accept of a worker for a task is stored, no step of a      *)
(* validly signed accept request for the same task and worker, whatever    *)
(* its accept_id, adds a row or leads to a success: the request is         *)
(* answered 409 conflict, by the status check or by the insertion (the     *)
(* store calls succeeding).                                                *)
(***************************************************************************)
C6_ReplayConflict ==
    [][ /\ \A in \in ValidAccepts :
             ( /\ Receives
               /\ AcceptsOf(accepts, in.task_id, in.req.worker_address) # {}
               /\ AcceptBegin(in.task_id, in.req, in.ok) )
             => /\ accepts' = accepts
                /\ AcceptCheck(tasks, accepts, in.task_id, in.req, in.ok).resp
                       \in {WriteError(409, "conflict"), NoResp}
        /\ \A x \in BagToSet(inflight), ok \in BOOLEAN :
             ( /\ Proceeds
               /\ AcceptsOf(accepts, x.task_id, x.req.worker_address) # {}
               /\ AcceptInsert(x, ok) )
             => /\ accepts' = accepts
                /\ inflight' = inflight (-) InFlight("insert", x.task_id, x.req)
                /\ ok => AcceptStore(tasks, accepts, x.task_id, x.req, ok, clock).resp
                             = WriteError(409, "conflict") ]_vars

\* a request is about to insert an accept for a task and a worker that have
\* one under another accept_id
C6_Witness ==
    \E x \in BagToSet(inflight) :
        /\ x.pc = "insert"
        /\ ValidAccept(x.task_id, x.req)
        /\ \E a \in AcceptsOf(accepts, x.task_id, x.req.worker_address) :
              a.accept_id # x.req.accept_id
        /\ AcceptStore(tasks, accepts, x.task_id, x.req, TRUE, clock).resp
               = WriteError(409, "conflict")

(***************************************************************************)
(* C7.  A valid task submission whose task_id is stored is answered 409    *)
(* conflict and leaves the tasks as they are; one whose task_id is not     *)
(* stored inserts the task with status created and is answered 201 (the    *)
(* insertion not failing otherwise).  So of two valid submissions with the *)
(* same task_id the first to reach the store inserts and the other does    *)
(* not.                                                                    *)
(***************************************************************************)
C7_DuplicateTaskConflict ==
    [][ \A in \in ValidSubmissions :
          (Receives /\ PostTask(in.req, in.ok))
          => LET rsp == PostTaskHandler(tasks, accepts, in.req, in.ok, clock).resp
                 id  == in.req.task_id
             IN  IF id \in DOMAIN tasks
                 THEN /\ rsp = WriteError(409, "conflict")
                      /\ tasks' = tasks
                 ELSE /\ rsp = WriteCreated(TaskStatusCreated)
                      /\ DOMAIN tasks' = DOMAIN tasks \cup {id}
                      /\ tasks'[id].status = TaskStatusCreated
                      /\ \A other \in DOMAIN tasks : tasks'[other] = tasks[other]
    ]_vars

\* a valid submission can arrive for a task that is stored and has moved on
C7_Witness ==
    /\ nreqs < MaxReqs
    /\ \E in \in ValidSubmissions :
          /\ in.req.task_id \in DOMAIN tasks
          /\ tasks[in.req.task_id].status = TaskStatusAcceptedOnchain
          /\ tasks[in.req.task_id].employer_address # in.req.employer_address
          /\ PostTaskHandler(tasks, accepts, in.req, in.ok, clock).resp
                 = WriteError(409, "conflict")

(***************************************************************************)
(* C8.  The three steps of an accept request, each store call succeeding.  *)
(* As stated: a validly signed request that finds the task with status     *)
(* created goes on to the insertion; the insertion, the worker having no   *)
(* accept for the task, adds exactly the row (accept_id, task_id,          *)
(* worker_address); the update then sets the task's status to accepted and *)
(* its worker_address to the worker, and the answer is 201 with status     *)
(* accepted.                                                               *)
(***************************************************************************)
C8_AcceptSucceeds_AsStated ==
    [][ /\ \A in \in ValidAccepts :
             ( /\ Receives
               /\ in.task_id \in DOMAIN tasks
               /\ tasks[in.task_id].status = TaskStatusCreated
               /\ AcceptBegin(in.task_id, in.req, in.ok) )
             => inflight' = inflight (+) InFlight("insert", in.task_id, in.req)
        /\ \A x \in BagToSet(inflight) :
             LET row == NewAccept(x.task_id, x.req)
             IN  /\ ( /\ Proceeds
                      /\ AcceptsOf(accepts, x.task_id, x.req.worker_address) = {}
                      /\ AcceptInsert(x, TRUE) )
                    => /\ row \notin accepts
                       /\ accepts' = accepts \cup {row}
                       /\ BagIn([x EXCEPT !.pc = "update"], inflight')
                 /\ (Proceeds /\ AcceptUpdate(x, TRUE))
                    => /\ tasks'[x.task_id].status = TaskStatusAccepted
                       /\ tasks'[x.task_id].worker_address = row.worker_address
                       /\ AcceptFinish(tasks, accepts, x.task_id, x.req, TRUE, clock).resp
                              = WriteCreated("accepted") ]_vars

(***************************************************************************)
(* C8, amended: the same, the insertion also finding no stored accept with *)
(* the request's accept_id.                                                *)
(***************************************************************************)
C8_AcceptSucceeds ==
    [][ /\ \A in \in ValidAccepts :
             ( /\ Receives
               /\ in.task_id \in DOMAIN tasks
               /\ tasks[in.task_id].status = TaskStatusCreated
               /\ AcceptBegin(in.task_id, in.req, in.ok) )
             => inflight' = inflight (+) InFlight("insert", in.task_id, in.req)
        /\ \A x \in BagToSet(inflight) :
             LET row == NewAccept(x.task_id, x.req)
             IN  /\ ( /\ Proceeds
                      /\ AcceptsOf(accepts, x.task_id, x.req.worker_address) = {}
                      /\ \A a \in accepts : a.accept_id # x.req.accept_id
                      /\ AcceptInsert(x, TRUE) )
                    => /\ row \notin accepts
                       /\ accepts' = accepts \cup {row}
                       /\ BagIn([x EXCEPT !.pc = "update"], inflight')
                 /\ (Proceeds /\ AcceptUpdate(x, TRUE))
                    => /\ tasks'[x.task_id].status = TaskStatusAccepted
                       /\ tasks'[x.task_id].worker_address = row.worker_address
                       /\ AcceptFinish(tasks, accepts, x.task_id, x.req, TRUE, clock).resp
                              = WriteCreated("accepted") ]_vars

\* one accept request has gone through its three steps: its row is stored,
\* it was answered 201, the task is accepted and carries the worker of the
\* row, which came in the request in mixed case
C8_Witness ==
    \E id \in DOMAIN tasks :
        /\ nAccepted[id] = 1
        /\ tasks[id].status = TaskStatusAccepted
        /\ Cardinality(accepts) = 1
        /\ inflight = EmptyBag
        /\ \E a \in accepts :
              /\ a.task_id = id
              /\ a.worker_address = tasks[id].worker_address
              /\ \E in \in AcceptInputs :
                    /\ NewAccept(in.task_id, in.req) = a
                    /\ in.req.worker_address # a.worker_address

(***************************************************************************)
(* C9.  Processing a WorkerSet event sets, on the task with the event's    *)
(* task hash, worker_address to the event's worker (in lower case) and     *)
(* status to accepted_onchain, whatever they were.                         *)
(***************************************************************************)
C9_WorkerSetUnconditional ==
    [][ \A d \in Deliveries :
          (Handles /\ ProcessedEvent(d, "WorkerSet", 3) /\ HandleLog(d)) =>
          \A id \in TasksOfEvent(tasks, d) :
              /\ tasks'[id].worker_address = ToLower(AddressHex(d.log.topics[3]))
              /\ tasks'[id].status = TaskStatusAcceptedOnchain ]_vars

\* a WorkerSet event was processed on a task that had been released and
\* whose accept came from another worker
C9_Witness ==
    \E d \in Deliveries :
        /\ ProcessedEvent(d, "WorkerSet", 3)
        /\ \E id \in TasksOfEvent(tasks, d) :
              /\ tasks[id].status = TaskStatusAcceptedOnchain
              /\ tasks[id].worker_address = ToLower(AddressHex(d.log.topics[3]))
              /\ tasks[id].onchain_tx_hash = d.log.tx
              /\ tasks[id].released_at # NullTime
              /\ \E a \in accepts : /\ a.task_id = id
                                    /\ a.worker_address # tasks[id].worker_address

(***************************************************************************)
(* C10.  Processing a Released (Refunded) event sets, on the task with the *)
(* event's task hash, status to released (refunded), released_at           *)
(* (refunded_at) to the time of processing and onchain_tx_hash to the      *)
(* event's transaction, and changes no other field.                        *)
(***************************************************************************)
C10_ReleasedRefundedFields ==
    [][ \A d \in Deliveries :
          /\ (Handles /\ ProcessedEvent(d, "Released", 2) /\ HandleLog(d)) =>
               \A id \in TasksOfEvent(tasks, d) :
                   /\ tasks'[id] = [tasks[id] EXCEPT
                                       !.status = TaskStatusReleased,
                                       !.released_at = clock,
                                       !.onchain_tx_hash = d.log.tx]
                   /\ tasks'[id].released_at # NullTime
          /\ (Handles /\ ProcessedEvent(d, "Refunded", 2) /\ HandleLog(d)) =>
               \A id \in TasksOfEvent(tasks, d) :
                   /\ tasks'[id] = [tasks[id] EXCEPT
                                       !.status = TaskStatusRefunded,
                                       !.refunded_at = clock,
                                       !.onchain_tx_hash = d.log.tx]
                   /\ tasks'[id].refunded_at # NullTime ]_vars

\* a Released event was processed on a task that an accept had given a
\* worker
C10_Witness ==
    \E d \in Deliveries :
        /\ ProcessedEvent(d, "Released", 2)
        /\ \E id \in TasksOfEvent(tasks, d) :
              /\ tasks[id].status = TaskStatusReleased
              /\ tasks[id].released_at # NullTime
              /\ tasks[id].onchain_tx_hash = d.log.tx
              /\ tasks[id].worker_address # NullText
              /\ tasks[id].refunded_at = NullTime

(***************************************************************************)
(* C11.  Processing a Created event sets, on the task with the event's     *)
(* task hash, onchain_created_at to the time of processing and             *)
(* onchain_tx_hash to the event's transaction, and changes no other field: *)
(* status and worker_address stay as they were, whatever they were.        *)
(***************************************************************************)
C11_CreatedRecordsOnly ==
    [][ \A d \in Deliveries :
          (Handles /\ ProcessedEvent(d, "Created", 2) /\ HandleLog(d)) =>
          \A id \in TasksOfEvent(tasks, d) :
              /\ tasks'[id] = [tasks[id] EXCEPT
                                  !.onchain_created_at = clock,
                                  !.onchain_tx_hash = d.log.tx]
              /\ tasks'[id].onchain_created_at # NullTime ]_vars

\* a Created event was processed on a task that had already been released
C11_Witness ==
    \E d \in Deliveries :
        /\ ProcessedEvent(d, "Created", 2)
        /\ \E id \in TasksOfEvent(tasks, d) :
              /\ tasks[id].onchain_created_at # NullTime
              /\ tasks[id].onchain_tx_hash = d.log.tx
              /\ tasks[id].status = TaskStatusReleased
              /\ tasks[id].released_at # NullTime

(***************************************************************************)
(* C12.  Processing a Created event whose task hash no task carries leaves *)
(* the tasks table as it is (no row added, none changed); the handler      *)
(* ends with the audit log line.                                           *)
(***************************************************************************)
C12_UnknownCreatedNoMutation ==
    [][ \A d \in Deliveries :
          ( /\ Handles
            /\ ProcessedEvent(d, "Created", 2)
            /\ TasksOfEvent(tasks, d) = {}
            /\ HandleLog(d) )
          => /\ tasks' = tasks
             /\ accepts' = accepts
             /\ handleLog(tasks, d, clock).outcome = "audit" ]_vars

\* a Created event of an unknown task hash can be handled while another
\* task is stored, and a later log can still be handled after it
C12_Witness ==
    /\ nlogs + 1 < MaxLogs
    /\ DOMAIN tasks # {}
    /\ \E d \in Deliveries :
          /\ ProcessedEvent(d, "Created", 2)
          /\ TasksOfEvent(tasks, d) = {}
          /\ handleLog(tasks, d, clock).outcome = "audit"

(***************************************************************************)
(* C13.  A log marked removed is discarded: handleLog returns at the       *)
(* removed check, no event handler runs and the store is left as it is,    *)
(* whatever the log's topics and whatever the head.                        *)
(***************************************************************************)
C13_RemovedDiscarded ==
    [][ Handles => \A d \in Deliveries :
          (d.log.removed /\ HandleLog(d)) =>
             /\ tasks' = tasks
             /\ accepts' = accepts
             /\ handleLog(tasks, d, clock).outcome = "removed" ]_vars

\* a removed WorkerSet log of a stored task, confirmed at the head, can be
\* handled
C13_Witness ==
    /\ nlogs < MaxLogs
    /\ \E d \in Deliveries :
          /\ d.log.removed
          /\ d.head >= d.log.block + SupportedChains[d.w].min_confirmations
          /\ d.log.topics[1] = EventID("WorkerSet")
          /\ TasksOfEvent(tasks, d) # {}
          /\ handleLog(tasks, d, clock).outcome = "removed"

(***************************************************************************)
(* C14.  On a chain with min_confirmations > 0 a log reaches the switch on *)
(* its topic only if the head read by handleLog is at least the log's      *)
(* block plus min_confirmations; when the head is lower, or the head query *)
(* fails, the store is left as it is.                                      *)
(***************************************************************************)
C14_ConfirmationGate ==
    [][ Handles => \A d \in Deliveries :
          LET minConfirmations == SupportedChains[d.w].min_confirmations
              confirmed == /\ d.head # HeadError
                           /\ d.head >= d.log.block + minConfirmations
          IN  (minConfirmations > 0 /\ ~confirmed /\ HandleLog(d))
                  => /\ handleLog(tasks, d, clock).outcome
                            \in {"removed", "head_error", "waiting"}
                     /\ tasks' = tasks
                     /\ accepts' = accepts ]_vars

\* a Released log of a stored task one block short of its confirmations can
\* be handled, and so can one whose head query fails
C14_Witness ==
    /\ nlogs < MaxLogs
    /\ \E d, e \in Deliveries :
          /\ ~d.log.removed /\ ~e.log.removed
          /\ d.ok /\ e.ok
          /\ Len(d.log.topics) >= 2 /\ Len(e.log.topics) >= 2
          /\ d.log.topics[1] = EventID("Released")
          /\ e.log.topics[1] = EventID("Released")
          /\ TasksOfEvent(tasks, d) # {}
          /\ TasksOfEvent(tasks, e) # {}
          /\ SupportedChains[d.w].min_confirmations = 2
          /\ SupportedChains[e.w].min_confirmations = 2
          /\ d.head = d.log.block + 1
          /\ e.head = HeadError
          /\ handleLog(tasks, d, clock).outcome = "waiting"
          /\ handleLog(tasks, e, clock).outcome = "head_error"


(***************************************************************************)
(* The watcher loop: what becomes of the logs of the chain.                *)
(***************************************************************************)

\* C15: a log that handleLog put off for want of confirmations is not lost:
\* while pollLogs waits for its ticker, every such log lies at or above the
\* cursor, so that a later window fetches it again once it is confirmed.
C15_DeferredStillCovered ==
    \A l \in DOMAIN emitted :
        (wpc = "polling" /\ emitted[l].last = "waiting" /\ emitted[l].cyc = cycles)
            => l.block >= fromBlock

\* the tick of pollLogs reads the head and queries a window
Queries(headOk) == wpc = "polling" /\ headOk /\ chainHead > fromBlock

\* the block the statement of C16 calls lastSeenBlock: the head read when
\* polling started, or the upper bound of the last successful window
lastSeenBlock == IF window = NoWindow THEN latestBlock ELSE window.to

\* C16 as stated: every query of pollLogs asks for [lastSeenBlock + 1,
\* currentHead], the first one included, and a successful query moves
\* lastSeenBlock to its currentHead.
C16_WindowAfterLastSeen ==
    [][\A headOk, filterOk \in BOOLEAN :
          (Queries(headOk) /\ PollTick(headOk, filterOk))
              => /\ fromBlock = lastSeenBlock + 1
                 /\ filterOk => window' = [from |-> lastSeenBlock + 1, to |-> chainHead]
      ]_vars

\* C16: in poll mode the first query asks for [latestBlock, currentHead],
\* latestBlock being the head read when polling started, and every later one
\* for [previous upper bound + 1, currentHead]; a successful query moves the
\* cursor to currentHead + 1 once its logs are handled, with or without
\* logs; a failed query and a head that has not passed the cursor leave the
\* cursor where it is.
C16_PollWindows ==
    [][/\ \A headOk, filterOk \in BOOLEAN :
             (wpc = "polling" /\ PollTick(headOk, filterOk))
                 => /\ fromBlock = IF window = NoWindow THEN latestBlock
                                   ELSE window.to + 1
                    /\ (Queries(headOk) /\ filterOk)
                           => window' = [from |-> fromBlock, to |-> chainHead]
                    /\ (headOk /\ ~(Queries(headOk) /\ filterOk))
                           => (window' = window /\ fromBlock' = fromBlock)
       /\ (wpc' = "polling" /\ window' # NoWindow) => fromBlock' = window'.to + 1
       /\ (wpc' = "polling" /\ window' = NoWindow) => fromBlock' = latestBlock'
       /\ (wpc' = "handling")
              => (fromBlock' = window'.from /\ currentBlock' = window'.to)
       /\ (window # NoWindow /\ window' # NoWindow /\ window' # window)
              => window'.from = window.to + 1
      ]_vars

\* a second window has been queried, and neither window held a log
C16_Witness ==
    /\ wpc = "polling"
    /\ emitted = << >>
    /\ window # NoWindow
    /\ window.from > latestBlock + 1
    /\ fromBlock = window.to + 1

\* C17 as stated: a log mined between a return of runOnce and its next call
\* (between the failure and the reconnection) is never handled.
C17_OutageLogsNeverHandled ==
    \A l \in DOMAIN emitted : emitted[l].missed => emitted[l].n = 0

\* C17: each entry of poll mode sets the cursor to the head read at that
\* moment, whatever the cursor of an earlier call was; no window and no
\* fetched log of that call lies below that head; and a log in a block below
\* that head that was not handled before is never handled.  (A log in the
\* block that is the head at that moment is fetched by the first window.)
C17_CursorFromHead ==
    [][/\ \A dialOk, subOk, headOk \in BOOLEAN :
             (RunOnce(dialOk, subOk, headOk) /\ wpc' = "polling")
                 => /\ latestBlock' = chainHead
                    /\ fromBlock' = chainHead
                    /\ window' = NoWindow
       /\ wpc' \in {"polling", "handling"}
             => /\ fromBlock' >= latestBlock'
                /\ window' # NoWindow => window'.from >= latestBlock'
                /\ \A i \in DOMAIN fetched' : fetched'[i].block >= latestBlock'
       /\ \A l \in DOMAIN emitted' : emitted'[l].skipped => emitted'[l].n = 0
      ]_vars

\* a log mined during an outage lies below the head read at the entry of
\* poll mode, and a window queried since would have found it confirmed
C17_Witness ==
    \E l \in DOMAIN emitted :
        /\ emitted[l].missed
        /\ emitted[l].skipped
        /\ emitted[l].n = 0
        /\ cycles >= 2
        /\ wpc = "polling"
        /\ window # NoWindow
        /\ window.to >= l.block + SupportedChains[watcher].min_confirmations

\* runOnce is running
InRunOnce == wpc \in {"subscribed", "polling", "handling"}

\* C18: Run returns only when ctx is cancelled; every call of runOnce ends in
\* the loop of the subscription, in the loop of pollLogs, or in the backoff
\* of Run; every return of runOnce, with or without error, leads to the
\* backoff and to nothing else; and the backoff, when it does not end
\* because ctx is cancelled, leads to the top of the loop, where the next
\* call of runOnce is made.
C18_RunNeverGivesUp ==
    [][/\ wpc' = "stopped" => cancelled
       /\ \A dialOk, subOk, headOk \in BOOLEAN :
             RunOnce(dialOk, subOk, headOk)
                 => /\ wpc' \in {"subscribed", "polling", "backoff"}
                    /\ wpc' = "backoff" => logged' = "reconnecting"
       /\ (InRunOnce /\ ~InRunOnce') => wpc' = "backoff"
       /\ (wpc = "backoff" /\ wpc' # "backoff") => wpc' \in {"run", "stopped"}
       /\ (wpc = "backoff" /\ ~cancelled /\ wpc' # "backoff") => wpc' = "run"
       /\ (wpc = "run" /\ ~cancelled /\ wpc' # "run") => cycles' = cycles + 1
      ]_vars

\* after a call of runOnce that failed and the backoff, Run, not cancelled,
\* is in its second call of runOnce
C18_Witness ==
    /\ cycles >= 2
    /\ ~cancelled
    /\ InRunOnce
    /\ connected

\* what handleLog makes of the log l when its store call fails
StoreFails(l, headOk, storeOk) ==
    watcherHandle(l, headOk, storeOk).outcome = "store_error"

\* C19 as stated: a log whose store call failed is never handled again.
C19_NeverHandledAgain ==
    [][\A l \in DOMAIN emitted :
          emitted[l].last = "store_error" => emitted'[l].n = emitted[l].n
      ]_vars

\* C19: a store failure in handleLog leaves the tables as they were and the
\* watcher where it was, in the loop of the subscription or of pollLogs, with
\* its client, in the same call of runOnce; the log is gone from the channel
\* or from the fetched logs, and the cursor passes it; the log is not handled
\* again by that call of runOnce.  (A later call that enters poll mode while
\* the block of the log is still the head fetches it again.)
C19_StoreFailureDropped ==
    [][/\ \A headOk, storeOk \in BOOLEAN :
             (/\ wpc = "subscribed"
              /\ SubRecv(headOk, storeOk)
              /\ StoreFails(Head(logsCh), headOk, storeOk))
                 => /\ tasks' = tasks
                    /\ wpc' = "subscribed" /\ connected' /\ cycles' = cycles
                    /\ logged' = logged
                    /\ logsCh' = Tail(logsCh)
       /\ \A headOk, storeOk \in BOOLEAN :
             (/\ wpc = "handling"
              /\ PollHandle(headOk, storeOk)
              /\ StoreFails(Head(fetched), headOk, storeOk))
                 => /\ tasks' = tasks
                    /\ wpc' \in {"handling", "polling"} /\ connected'
                    /\ cycles' = cycles
                    /\ logged' = logged
                    /\ fetched' = Tail(fetched)
                    /\ wpc' = "polling" => fromBlock' > Head(fetched).block
       /\ \A l \in DOMAIN emitted :
             (emitted[l].last = "store_error" /\ emitted'[l].n > emitted[l].n)
                 => (emitted[l].cyc < cycles /\ wpc = "handling")
      ]_vars

\* the store call failed for one log, and the same call of runOnce, still
\* connected, has applied a later one
C19_Witness ==
    \E l, m \in DOMAIN emitted :
        /\ l.block < m.block
        /\ emitted[l].last = "store_error" /\ emitted[l].n = 1
        /\ emitted[m].last = "applied"
        /\ emitted[l].cyc = cycles /\ emitted[m].cyc = cycles
        /\ connected
        /\ cycles = 1

\* runOnce has returned: its client is closed and Run is in its backoff
Reconnects == wpc' = "backoff" /\ ~connected' /\ logged' = "reconnecting"

\* handleLog asks for the head of the chain when it handles the log l
AsksHead(l) == ~l.removed /\ SupportedChains[watcher].min_confirmations > 0

\* C20: every transport failure makes runOnce return, which closes the
\* client, and Run start over after its backoff: an error of the
\* subscription, a failed dial, a failed head query (at the entry of
\* pollLogs, at a tick, or in handleLog) and a failed log query.
C20_TransportFailureReconnects ==
    [][/\ SubErr => Reconnects
       /\ \A dialOk, subOk, headOk \in BOOLEAN :
             (RunOnce(dialOk, subOk, headOk) /\ (~dialOk \/ (~subOk /\ ~headOk)))
                 => Reconnects
       /\ \A headOk, filterOk \in BOOLEAN :
             (/\ wpc = "polling"
              /\ PollTick(headOk, filterOk)
              /\ ~headOk \/ (chainHead > fromBlock /\ ~filterOk))
                 => Reconnects
       /\ \A headOk, storeOk \in BOOLEAN :
             (/\ wpc = "subscribed"
              /\ SubRecv(headOk, storeOk)
              /\ AsksHead(Head(logsCh)) /\ ~headOk)
                 => Reconnects
       /\ \A headOk, storeOk \in BOOLEAN :
             (/\ wpc = "handling"
              /\ PollHandle(headOk, storeOk)
              /\ AsksHead(Head(fetched)) /\ ~headOk)
                 => Reconnects
      ]_vars

(***************************************************************************)
(* The whole process as main starts it: the HTTP handlers, the watcher of  *)
(* one chain going through its loop against an endpoint that fails, and    *)
(* the watcher of the other chain handling its logs.                       *)
(***************************************************************************)
\* the logs the watcher of another chain than the watched one handles
OtherDeliveries == { d \in Deliveries : d.w = 2 }

SystemNext ==
    \/ \E in \in ValidSubmissions : PostTask(in.req, in.ok)
    \/ \E in \in ValidAccepts : AcceptBegin(in.task_id, in.req, in.ok)
    \/ \E x \in Pending("insert"), ok \in BOOLEAN : AcceptInsert(x, ok)
    \/ \E x \in Pending("update"), ok \in BOOLEAN : AcceptUpdate(x, ok)
    \/ \E d \in OtherDeliveries : HandleLog(d)
    \/ \E dialOk, subOk, headOk \in BOOLEAN : RunOnce(dialOk, subOk, headOk)
    \/ SubErr
    \/ \E headOk, filterOk \in BOOLEAN : PollTick(headOk, filterOk)
    \/ BackoffElapsed

SystemSpec == Init /\ [][SystemNext]_vars

(***************************************************************************)
(* The watcher loop under the scheduling of Go: a select of Run, runOnce   *)
(* or pollLogs whose ctx.Done() case stays ready takes it in the end (a    *)
(* select picks among its ready cases at random), the timer of the backoff *)
(* fires, and the loop over the fetched logs goes on.                      *)
(***************************************************************************)
WatcherFairSpec ==
    /\ WatcherSpec
    /\ WF_vars(RunCancelled)
    /\ WF_vars(SubCancelled)
    /\ SF_vars(PollCancelled)
    /\ WF_vars(\E headOk, storeOk \in BOOLEAN : PollHandle(headOk, storeOk))
    /\ WF_vars(BackoffElapsed \/ BackoffCancelled)

\* C21: once ctx is cancelled Run returns in the end, wherever it was
\* waiting (the channels of the subscription, the ticker of pollLogs, the
\* timer of the backoff); and whenever runOnce is not running, and so when
\* Run has returned, the client is closed and the channel of the
\* subscription is gone.
C21_CancelledRunReturns ==
    /\ cancelled ~> (wpc = "stopped")
    /\ [](~InRunOnce => (~connected /\ logsCh = << >> /\ fetched = << >>))

\* Run has returned after ctx was cancelled while runOnce was in the loop of
\* the subscription, the client closed
C21_Witness ==
    /\ wpc = "stopped"
    /\ cancelled
    /\ logged = "subscribed"
    /\ ~connected

\* the step is one of the loop of the watcher
LoopStep == wvars' # wvars

\* the watcher is not in the loop of a working connection: it has not
\* connected yet, or waits to reconnect after a failure
Failing == wpc \in {"run", "backoff"}

\* C22: the loop of a watcher touches nothing of the HTTP handlers and of
\* the other watcher but the tasks table, and not even that while it fails
\* to connect; the handlers and the other watcher touch nothing of the
\* loop; and wherever the loop is (connecting, subscribed, polling, waiting
\* to reconnect), every task submission and accept request can be received
\* and can take its next store call, and the other watcher can handle its
\* next log, with the result the store alone determines.
C22_WatchersIndependent ==
    /\ [][/\ LoopStep => UNCHANGED <<accepts, inflight, nreqs, nAccepted, nlogs, clock>>
          /\ (LoopStep /\ (Failing \/ Failing')) => UNCHANGED tasks
          /\ (Receives \/ Handles \/ Proceeds) => UNCHANGED wvars
          /\ Handles => \E d \in OtherDeliveries :
                            tasks' = handleLog(tasks, d, clock).tasks
         ]_vars
    /\ [](/\ nreqs < MaxReqs =>
               /\ \A in \in ValidSubmissions : ENABLED PostTask(in.req, in.ok)
               /\ \A in \in ValidAccepts :
                      ENABLED AcceptBegin(in.task_id, in.req, in.ok)
          /\ \A x \in BagToSet(inflight) :
                 \/ x.pc = "insert" /\ ENABLED AcceptInsert(x, TRUE)
                 \/ x.pc = "update" /\ ENABLED AcceptUpdate(x, TRUE)
          /\ nlogs < MaxLogs => \A d \in OtherDeliveries : ENABLED HandleLog(d))

\* the watcher of one chain waits to reconnect after its second call of
\* runOnce has failed, while a task has been registered and accepted and
\* the other watcher has applied the Released event
C22_Witness ==
    /\ wpc = "backoff"
    /\ cycles = 2
    /\ logged = "reconnecting"
    /\ \E id \in DOMAIN tasks :
          /\ tasks[id].status = TaskStatusReleased
          /\ nAccepted[id] = 1

\* the response PostTask writes to the drawn submission
TaskResponse == PostTaskHandler(tasks, accepts, request.req, TRUE, clock).resp

\* the response PostTaskAccept writes to the drawn accept request when it
\* writes it before InsertAccept, NoResp otherwise
AcceptResponse ==
    AcceptCheck(tasks, accepts, request.task_id, request.req, TRUE).resp

\* every check of PostTask but those of task_hash passes on req
PassesButHash(req) ==
    /\ req.task_id # ""
    /\ ChainIndex(req.chain_id) # 0
    /\ reHexAddr(req.employer_address)
    /\ ParseAmount(TrimSpace(req.amount_wei)).ok
    /\ ParseAmount(TrimSpace(req.amount_wei)).sign > 0
    /\ req.deadline_unix > 0
    /\ req.deadline_unix <= DeadlineCeiling
    /\ VerifyPersonalSign(req.task_id, req.signature, req.employer_address) = "nil"

\* C23: every row of the tasks table has task_hash = keccak256Hex(task_id);
\* a submission whose task_hash differs from it other than by the case of
\* its letters is answered 400 invalid_request and leaves the table as it
\* was; one that carries exactly that value and passes every other check is
\* stored.
C23_TaskHashDerived ==
    /\ [](\A id \in DOMAIN tasks :
              tasks[id].task_hash = keccak256Hex(tasks[id].task_id))
    /\ [][SubmitTask =>
            LET req == request.req
            IN  /\ ToLower(req.task_hash) # ToLower(keccak256Hex(req.task_id)) =>
                      /\ TaskResponse = WriteError(400, "invalid_request")
                      /\ tasks' = tasks
                /\ (req.task_hash = keccak256Hex(req.task_id) /\ PassesButHash(req)) =>
                      /\ TaskResponse = WriteCreated(TaskStatusCreated)
                      /\ req.task_id \in DOMAIN tasks'
          ]_vars

\* a submission whose task_hash was written in upper case has been stored,
\* the hash in lower case
C23_Witness ==
    /\ request.kind = "task"
    /\ nreqs = 1
    /\ request.req.task_hash = "0X1D"
    /\ "t" \in DOMAIN tasks
    /\ tasks["t"].task_hash = keccak256Hex("t")


\* every check of PostTask but those of the signature passes on req
PassesButSignature(req) ==
    /\ req.task_id # ""
    /\ ChainIndex(req.chain_id) # 0
    /\ reHexAddr(req.employer_address)
    /\ reHexHash(req.task_hash)
    /\ ToLower(req.task_hash) = ToLower(keccak256Hex(req.task_id))
    /\ ParseAmount(TrimSpace(req.amount_wei)).ok
    /\ ParseAmount(TrimSpace(req.amount_wei)).sign > 0
    /\ req.deadline_unix > 0
    /\ req.deadline_unix <= DeadlineCeiling

\* the signature sig fails for the message and the claimed address: it is
\* missing, malformed, not recoverable, or of another signer
SignatureFails(message, sig, address) ==
    \/ sig.form # "hex65"
    \/ VerifyPersonalSign(message, sig, address) # "nil"

\* C24: a task submission or an accept request that is in order but for its
\* signature, which is missing, malformed (wrong length, not hex), not
\* recoverable or of another signer, is answered 401 unauthorized.
C24_SignatureFailureUnauthorized ==
    [][/\ (/\ SubmitTask
           /\ PassesButSignature(request.req)
           /\ SignatureFails(request.req.task_id, request.req.signature,
                             request.req.employer_address))
          => TaskResponse = WriteError(401, "unauthorized")
       /\ (/\ SubmitAccept
           /\ request.req.accept_id # ""
           /\ reHexAddr(request.req.worker_address)
           /\ SignatureFails(request.task_id \o request.req.accept_id,
                             request.req.signature, request.req.worker_address))
          => AcceptResponse = WriteError(401, "unauthorized")
      ]_vars


\* sig is a well-formed signature of the message, made by a key whose
\* address is not the well-formed address claimed
SignedByAnother(message, sig, address) ==
    /\ sig.form = "hex65"
    /\ sig.v \in {0, 1, 27, 28}
    /\ sig.m = Keccak256(message)
    /\ reHexAddr(address)
    /\ ToLower(address) # ToLower(AddressHex(AddressBytes(sig.k)))

\* C25: for a task submission signed over its task_id by a key whose address
\* is not the employer_address, VerifyPersonalSign returns ErrSignerMismatch
\* and no row is stored; the response is 401 unauthorized when the other
\* fields are in order, and an error in any case.
C25_WrongSignerRejected ==
    [][(/\ SubmitTask
        /\ SignedByAnother(request.req.task_id, request.req.signature,
                           request.req.employer_address))
       => /\ VerifyPersonalSign(request.req.task_id, request.req.signature,
                                request.req.employer_address) = "ErrSignerMismatch"
          /\ tasks' = tasks
          /\ TaskResponse.code \in {400, 401}
          /\ PassesButSignature(request.req) =>
                 TaskResponse = WriteError(401, "unauthorized")
      ]_vars

\* a submission in order but signed by the key K2 for the address of K1 has
\* been handled, and the table is empty
C25_Witness ==
    /\ request.kind = "task"
    /\ nreqs = 1
    /\ request.req.signature = PersonalSign("K2", "t")
    /\ request.req.employer_address = AddressHex(AddressBytes("K1"))
    /\ PassesButSignature(request.req)
    /\ tasks = << >>


\* the signature string cannot be recovered from: it is not hex, or not of
\* 65 bytes, or its recovery id is none
Unrecoverable(sig) ==
    \/ sig.form # "hex65"
    \/ sig.v \notin {0, 1, 27, 28}

\* the message the drawn request must have signed, and the address it claims
SignedMessage ==
    IF request.kind = "task" THEN request.req.task_id
    ELSE request.task_id \o request.req.accept_id

ClaimedAddress ==
    IF request.kind = "task" THEN request.req.employer_address
    ELSE request.req.worker_address

\* the addresses a caller can expect: those of the keys, of no key, and
\* strings that are no address
ExpectedAddresses ==
    {AddressHex(AddressBytes(k)) : k \in Keys \cup {"?"}}
    \cup {ToLower(AddressHex(AddressBytes(k))) : k \in Keys}
    \cup {"", "0xzz"}

\* C26: for a signature that is not hex, not of 65 bytes or of no valid
\* recovery id, RecoverPersonalSign fails with ErrInvalidSignature and
\* yields no address, and VerifyPersonalSign returns ErrInvalidSignature
\* whatever the expected address is, the claimed one and the empty one
\* included: the addresses are not compared.
C26_BadSignatureInvalid ==
    [][((SubmitTask \/ SubmitAccept) /\ Unrecoverable(request.req.signature))
       => LET sig == request.req.signature
              rec == RecoverPersonalSign(Keccak256(SignedMessage), sig)
          IN  /\ rec.err = "ErrInvalidSignature"
              /\ rec.addr = ""
              /\ \A a \in ExpectedAddresses \cup {ClaimedAddress} :
                     VerifyPersonalSign(SignedMessage, sig, a) = "ErrInvalidSignature"
      ]_vars

\* a submission in order but for the recovery id of its signature, which
\* is none, has been handled, and the table is empty
C26_Witness ==
    /\ request.kind = "task"
    /\ nreqs = 1
    /\ request.req.signature = [PersonalSign("K1", "t") EXCEPT !.v = 5]
    /\ request.req.employer_address = AddressHex(AddressBytes("K1"))
    /\ PassesButSignature(request.req)
    /\ tasks = << >>


\* the address of the key k as Hex() writes it, in lower case and in upper
\* case
AddressSpellings(k) ==
    LET hex == AddressHex(AddressBytes(k))
    IN  {hex, ToLower(hex), ToUpper(hex)}

AcceptTargets == {rq.task_id : rq \in AcceptRequests}

\* C28: the signature of an accept request that verifies for a pair
\* (task_id T, accept_id A) with T another task than the one the request
\* names does not verify for the request, which goes no further than the
\* signature check.
C28_AcceptBoundToTask ==
    [][SubmitAccept
       => LET sig    == request.req.signature
              worker == request.req.worker_address
          IN  \A T \in AcceptTargets \ {request.task_id}, A \in AcceptIDs :
                (/\ reHexAddr(worker)
                 /\ VerifyPersonalSign(T \o A, sig, worker) = "nil")
                => /\ VerifyPersonalSign(request.task_id \o request.req.accept_id,
                                         sig, worker) # "nil"
                   /\ inflight' = inflight
      ]_vars


\* C29: the signature is the last rule PostTask applies: a submission that
\* breaks an earlier rule (task_id, chain_id in the supported chains,
\* employer_address, task_hash, amount, deadline) is answered 400
\* invalid_request whatever its signature is; so is, among them, one whose
\* chain_id is not supported.
C29_SignatureCheckedLast ==
    [][(SubmitTask /\ ~PassesButSignature(request.req))
       => TaskResponse = WriteError(400, "invalid_request")
      ]_vars


\* req breaks a bound of PostTask: its chain_id is not a supported chain,
\* its amount is no decimal integer above 0, or its deadline is not above 0
\* and below ceiling
BreaksBounds(req, ceiling) ==
    \/ ChainIndex(req.chain_id) = 0
    \/ ~ParseAmount(TrimSpace(req.amount_wei)).ok
    \/ ParseAmount(TrimSpace(req.amount_wei)).sign <= 0
    \/ req.deadline_unix <= 0
    \/ req.deadline_unix >= ceiling

\* C30: every row of the tasks table has its chain_id among the supported
\* chains, an amount that is a decimal integer above 0 and a deadline with
\* 0 < deadline < 1<<62; a submission that breaks one of these bounds is
\* answered 400 invalid_request and leaves the table as it was.
C30_StoredWithinBounds ==
    /\ [](\A id \in DOMAIN tasks :
              /\ ChainIndex(tasks[id].chain_id) # 0
              /\ ParseAmount(tasks[id].amount_wei).ok
              /\ ParseAmount(tasks[id].amount_wei).sign > 0
              /\ tasks[id].deadline_unix > 0
              /\ tasks[id].deadline_unix < DeadlineCeiling)
    /\ [][(SubmitTask /\ BreaksBounds(request.req, DeadlineCeiling))
          => /\ TaskResponse = WriteError(400, "invalid_request")
             /\ tasks' = tasks
         ]_vars


(***************************************************************************)
(* The store and the state of a task over its life.                        *)
(***************************************************************************)

\* the delivery is a processed WorkerSet, Released or Refunded event: one
\* that ends in an UPDATE ... WHERE task_hash = $4
ProcessedUpdate(d) ==
    \/ ProcessedEvent(d, "WorkerSet", 3)
    \/ ProcessedEvent(d, "Released", 2)
    \/ ProcessedEvent(d, "Refunded", 2)

\* the task ids and task hashes a caller can ask the store for
AskedIDs == {"t", "ta", "zz"}

\* C31: a store operation addressed to a task that has no row reports
\* ErrNotFound: GetTask and GetTaskByHash do; and an update by task hash
\* that matches no row does not come back to the handler as a success (the
\* handler's last log line is not that of an applied event).
C31_MissingTaskNotFound ==
    /\ [](\A id \in AskedIDs \ DOMAIN tasks :
              /\ GetTask(tasks, id).err = "ErrNotFound"
              /\ (\A x \in DOMAIN tasks : tasks[x].task_hash # keccak256Hex(id))
                     => GetTaskByHash(tasks, keccak256Hex(id)).err = "ErrNotFound")
    /\ [][ \A d \in Deliveries :
             ( /\ Handles
               /\ ProcessedUpdate(d)
               /\ TasksOfEvent(tasks, d) = {}
               /\ HandleLog(d) )
             => handleLog(tasks, d, clock).outcome # "applied" ]_vars


\* C32: in poll mode a failed log query leaves the cursor where it was, so
\* that it still is the start block the last successful window left (or the
\* head read when polling started); the next query asks for the blocks from
\* that same cursor up to the head of that moment, and no block between the
\* cursor and that head is left out.
C32_FailedQueryKeepsCursor ==
    [][\A headOk, filterOk \in BOOLEAN :
          /\ (Queries(headOk) /\ ~filterOk /\ PollTick(headOk, filterOk))
               => /\ fromBlock' = fromBlock
                  /\ window' = window
                  /\ wpc' = "polling"
                  /\ fetched' = << >>
                  /\ logged' = "filter_error"
          /\ (/\ logged = "filter_error"
              /\ Queries(headOk)
              /\ filterOk
              /\ PollTick(headOk, filterOk))
               => /\ fromBlock = IF window = NoWindow THEN latestBlock
                                 ELSE window.to + 1
                  /\ window' = [from |-> fromBlock, to |-> chainHead]
                  /\ \A l \in DOMAIN emitted :
                        (fromBlock <= l.block /\ l.block <= chainHead)
                            => \/ \E i \in DOMAIN fetched' : fetched'[i] = l
      ]_vars

\* after a failed query a later one has fetched a log, in a window that
\* starts at the cursor the failed query left
C32_Witness ==
    /\ logged = "filter_error"
    /\ wpc = "handling"
    /\ fetched # << >>
    /\ window.from = fromBlock
    /\ window.to = chainHead
    /\ window.from < window.to


\* the statuses that only events of the chain give
OnchainStatuses ==
    {TaskStatusAcceptedOnchain, TaskStatusReleased, TaskStatusRefunded}

\* C33: no step of an HTTP request changes the status or the worker_address
\* of a task whose status is accepted_onchain, released or refunded,
\* whenever the status check of the request ran.
C33_AcceptKeepsOnchainState ==
    [][(Receives \/ Proceeds) =>
          \A id \in DOMAIN tasks :
              tasks[id].status \in OnchainStatuses
                  => /\ tasks'[id].status = tasks[id].status
                     /\ tasks'[id].worker_address = tasks[id].worker_address
      ]_vars


\* C34: an accept request that ends with an error leaves no accept row of
\* its own, the error of UpdateTaskWorker included; and when no request is
\* under way, every accept row is of a task whose status has left created.
C34_AcceptAtomic ==
    /\ [][Proceeds =>
            \A x \in Pending("update") :
                AcceptUpdate(x, FALSE) => NewAccept(x.task_id, x.req) \notin accepts'
         ]_vars
    /\ [](inflight = EmptyBag =>
             \A a \in accepts : tasks[a.task_id].status # TaskStatusCreated)


\* C35: the watcher of a chain changes no field of a task registered for
\* another chain, whatever log it handles.
C35_WatcherKeepsToItsChain ==
    [][Handles =>
          \A d \in Deliveries :
              HandleLog(d) =>
                  \A id \in DOMAIN tasks :
                      tasks[id].chain_id # SupportedChains[d.w].chain_id
                          => tasks'[id] = tasks[id]
      ]_vars


\* C36: no task has both released_at and refunded_at set, and no step makes
\* a released task refunded or a refunded task released.
C36_ReleasedXorRefunded ==
    /\ [](\A id \in DOMAIN tasks :
              tasks[id].released_at = NullTime \/ tasks[id].refunded_at = NullTime)
    /\ [][\A id \in DOMAIN tasks :
             /\ tasks[id].status = TaskStatusReleased
                    => tasks'[id].status # TaskStatusRefunded
             /\ tasks[id].status = TaskStatusRefunded
                    => tasks'[id].status # TaskStatusReleased
         ]_vars


\* C37: in every state a task with status released has released_at set and
\* a task with status refunded has refunded_at set.
C37_TerminalStatusHasTime ==
    \A id \in DOMAIN tasks :
        /\ tasks[id].status = TaskStatusReleased => tasks[id].released_at # NullTime
        /\ tasks[id].status = TaskStatusRefunded => tasks[id].refunded_at # NullTime

\* a task that an accept had given a worker has been released, at a time
\* later than its registration
C37_Witness ==
    \E id \in DOMAIN tasks :
        /\ tasks[id].status = TaskStatusReleased
        /\ tasks[id].released_at = MaxClock
        /\ tasks[id].refunded_at = NullTime
        /\ nAccepted[id] = 1


\* C38: in every state a task with status created has no worker_address
\* (NULL), and a task with status accepted or accepted_onchain has one that
\* is not empty.
C38_WorkerFollowsStatus ==
    \A id \in DOMAIN tasks :
        /\ tasks[id].status = TaskStatusCreated => tasks[id].worker_address = NullText
        /\ tasks[id].status \in {TaskStatusAccepted, TaskStatusAcceptedOnchain}
               => /\ tasks[id].worker_address # NullText
                  /\ tasks[id].worker_address # ""
                  /\ reHexAddr(tasks[id].worker_address)

\* a task is accepted_onchain with the worker of the WorkerSet event, an
\* accept row of another worker being stored
C38_Witness ==
    \E id \in DOMAIN tasks :
        /\ tasks[id].status = TaskStatusAcceptedOnchain
        /\ tasks[id].worker_address = ToLower(AddressHex(AddressBytes("K3")))
        /\ \E a \in accepts : a.task_id = id /\ a.worker_address # tasks[id].worker_address


\* C39: a task whose status is not created keeps its row and never has
\* status created again, whatever step is taken: a submission (of the same
\* task_id or another), a step of an accept request, a log handled.
C39_NeverBackToCreated ==
    [][\A id \in DOMAIN tasks :
          tasks[id].status # TaskStatusCreated
              => /\ id \in DOMAIN tasks'
                 /\ tasks'[id].status # TaskStatusCreated
      ]_vars

\* a task has been accepted and its Created log handled, and as many
\* requests were received as the bound allows
C39_Witness ==
    \E id \in DOMAIN tasks :
        /\ tasks[id].status = TaskStatusAccepted
        /\ tasks[id].onchain_created_at # NullTime
        /\ nreqs = MaxReqs
        /\ nAccepted[id] = 1


\* the step handles the emitted log l once more
HandlesLog(l) == l \in DOMAIN emitted' /\ emitted'[l].n = emitted[l].n + 1

\* the tasks that carry the task hash of the log l
TasksOfLog(tbl, l) ==
    {id \in DOMAIN tbl : tbl[id].task_hash = taskHashFromTopic(l.topics[2])}

\* the deliveries that are processed WorkerSet, Released or Refunded events
ProcessedUpdates == {d \in Deliveries : ProcessedUpdate(d)}

\* C40: a processed WorkerSet, Released or Refunded log whose task hash no
\* task carries leaves the tasks table as it is, no row added and none
\* changed; and a task registered afterwards is stored as its submission
\* describes it: status created, no worker, no released_at or refunded_at,
\* no onchain_tx_hash.
C40_UnknownEventLeavesNoTrace ==
    /\ [](\A d \in ProcessedUpdates :
              TasksOfEvent(tasks, d) = {}
                  => handleLog(tasks, d, clock).tasks = tasks)
    /\ [][/\ \A l \in DOMAIN emitted :
                (HandlesLog(l) /\ TasksOfLog(tasks, l) = {})
                    => (tasks' = tasks /\ accepts' = accepts)
          /\ (Receives /\ DOMAIN tasks' # DOMAIN tasks) =>
                \A in \in ValidSubmissions :
                    Register(in.req)
                        => LET row == tasks'[in.req.task_id]
                           IN  /\ row = TaskRow(NewTask(in.req))
                               /\ row.status = TaskStatusCreated
                               /\ row.worker_address = NullText
                               /\ row.released_at = NullTime
                               /\ row.refunded_at = NullTime
                               /\ row.onchain_tx_hash = NullText
         ]_vars

\* the Released log of the task was handled to its end, as an applied
\* event, before the task was registered: the task is stored in status
\* created with nothing of the event
C40_Witness ==
    /\ "t" \in DOMAIN tasks
    /\ tasks["t"].status = TaskStatusCreated
    /\ tasks["t"].released_at = NullTime
    /\ tasks["t"].onchain_tx_hash = NullText
    /\ \E l \in DOMAIN emitted :
          /\ l.topics[1] = EventID("Released")
          /\ emitted[l].last = "applied"

====
